---- MODULE Spec2Model ----
(***************************************************************************)
(* Export pipeline of TRPG-JSON (rust/core/src/export and the CLI's        *)
(* export_results): format parsing, the JSON / Google Sheets / Udonarium   *)
(* exporters, the OAuth credential lifecycle and the column-A row search.  *)
(***************************************************************************)
EXTENDS Integers, Sequences, FiniteSets, TLC

VARIABLES
    pc,          \* position of the running command
    formatArg,   \* --export argument, a sequence of characters
    exporter,    \* exporter chosen by ExporterFactory::create_exporter
    data,        \* the records handed to DataExporter::export
    destination, \* config.destination
    result,      \* what export / from_str returned to export_results
    homeSet,     \* whether HOME or XDG_CONFIG_HOME is set
    credFile,    \* ~/.config/trpg-json/credentials.json
    now,         \* SystemTime::now() in seconds
    oauth,       \* state of the running OAuth flow (nonce, request, code, token)
    client,      \* the GoogleSheetsClient built by GoogleSheetsClient::new
    idx,         \* index of the record the export loop is at (1-based)
    start_row,   \* start_row found for the current record
    sheet,       \* remote spreadsheet: rows whose column A holds a value
    inFlight,    \* remote requests sent and not yet answered
    log,         \* history: remote requests in the order sent / answered
    io,          \* history: kinds of I/O performed so far
    dirs,        \* directories that exist
    files,       \* files written by the exporters: path -> content
    values,      \* number of rows in the column-A read result being scanned
    all_xml_files \* Udonarium: the (file name, XML) pairs collected so far

vars == <<pc, formatArg, exporter, data, destination, result, homeSet, credFile,
          now, oauth, client, idx, start_row, sheet, inFlight, log, io, dirs,
          files, values, all_xml_files>>

inputVars == <<formatArg, data, destination, homeSet>>
authVars == <<credFile, oauth, client>>
remoteVars == <<sheet, inFlight, log>>
fsVars == <<dirs, files>>

-----------------------------------------------------------------------------
(* Bounds of the model *)

\* longest record list handed to an exporter
MaxRecords == 2
\* largest row count of a column-A read result tried by the row search alone
\* is ColumnALast - ColumnAFirst + 1 + ExtraValues
ExtraValues == 3

-----------------------------------------------------------------------------
(* Program constants *)

\* sheets_api.rs: range "{sheet}!A3:A1000"
ColumnAFirst == 3
ColumnALast == 1000
\* sheets_api.rs: for i in (0..1000).step_by(2)
ScanEnd == 1000
ScanStep == 2
\* auth.rs: expires_at <= now + 60
ExpirySkew == 60
\* google_sheets.rs validate_spreadsheet_id: id.len() < 20
MinIdLenExporter == 20
\* sheets_api.rs validate_spreadsheet_id: spreadsheet_id.len() < 10
MinIdLenClient == 10

-----------------------------------------------------------------------------
(* Results *)

Ok(v) == [tag |-> "Ok", value |-> v]
Err(kind, msg) == [tag |-> "Err", kind |-> kind, msg |-> msg]
Unset == [tag |-> "Unset"]
IsOk(r) == r.tag = "Ok"
IsErr(r) == r.tag = "Err"

\* Option<T>
NoneV == [some |-> FALSE]
Some(v) == [some |-> TRUE, val |-> v]
unwrap_or(o, d) == IF o.some THEN o.val ELSE d

Min(a, b) == IF a <= b THEN a ELSE b
Max(a, b) == IF a >= b THEN a ELSE b
SetMax(S) == CHOOSE m \in S : \A k \in S : k <= m

-----------------------------------------------------------------------------
(* ExportFormat::from_str *)

UpperChars == <<"A","B","C","D","E","F","G","H","I","J","K","L","M",
                "N","O","P","Q","R","S","T","U","V","W","X","Y","Z">>
LowerChars == <<"a","b","c","d","e","f","g","h","i","j","k","l","m",
                "n","o","p","q","r","s","t","u","v","w","x","y","z">>

\* char::to_lowercase on the characters the model uses
to_lowercase_char(c) ==
    IF \E k \in DOMAIN UpperChars : UpperChars[k] = c
    THEN LowerChars[CHOOSE k \in DOMAIN UpperChars : UpperChars[k] = c]
    ELSE c

\* str::to_lowercase
to_lowercase(s) == [i \in DOMAIN s |-> to_lowercase_char(s[i])]

Chars_json == <<"j","s","o","n">>
Chars_sheets == <<"s","h","e","e","t","s">>
Chars_google_sheets == <<"g","o","o","g","l","e","-","s","h","e","e","t","s">>
Chars_googlesheets == <<"g","o","o","g","l","e","s","h","e","e","t","s">>
Chars_udonarium == <<"u","d","o","n","a","r","i","u","m">>

\* impl FromStr for ExportFormat: Err is a String, not an ExportError
from_str(s) ==
    LET l == to_lowercase(s) IN
    IF l = Chars_json THEN Ok("Json")
    ELSE IF l \in {Chars_sheets, Chars_google_sheets, Chars_googlesheets}
         THEN Ok("GoogleSheets")
    ELSE IF l = Chars_udonarium THEN Ok("Udonarium")
    ELSE Err("String", "Unknown export format")

\* ExporterFactory::create_exporter
create_exporter(format) ==
    CASE format = "Json" -> "JSON Exporter"
      [] format = "GoogleSheets" -> "Google Sheets Exporter"
      [] format = "Udonarium" -> "Udonarium Exporter"

-----------------------------------------------------------------------------
(* Records: Monster and Part (lib.rs) *)

MkPart(name, core, hp, mp, hit, dodge, damage, armor, special) ==
    [name |-> name, core |-> core, hp |-> hp, mp |-> mp, hit_rate |-> hit,
     dodge |-> dodge, damage |-> damage, armor |-> armor,
     special_abilities |-> special]

Goblin ==
    [name |-> "Goblin", category |-> "Barbarous", level |-> 2,
     part |-> <<MkPart("", Some(TRUE), Some(16), 12, Some(10), Some(10),
                       Some(2), 2, "")>>,
     initiative |-> 11, common_abilities |-> "",
     weakness |-> <<"<ma>","<hou>","<da>","<me>","<long>","<ji>","+","2">>,
     moveon |-> 11, moveon_description |-> "", movein |-> -1,
     movein_description |-> "", data |-> "ML001",
     weakness_value |-> 10, life_resistance |-> 10, mental_resistance |-> 10,
     fame |-> 5, revision |-> "2.5"]

Treant ==
    [name |-> "Treant", category |-> "Plant", level |-> 7,
     part |-> <<MkPart("trunk", Some(TRUE), Some(48), -1, Some(15), Some(13),
                       Some(8), 5, "regrow"),
                MkPart("root", Some(FALSE), NoneV, 20, Some(14), NoneV,
                       Some(6), 3, ""),
                MkPart("root", NoneV, Some(30), 20, NoneV, Some(5),
                       NoneV, 3, "grab")>>,
     initiative |-> 14, common_abilities |-> "plant body",
     weakness |-> <<"<honoo>","<zoku>","<sei>","<da>","<me>","<long>","<ji>","+","3">>,
     moveon |-> -1, moveon_description |-> "", movein |-> 5,
     movein_description |-> "burrow", data |-> "ML002",
     weakness_value |-> 17, life_resistance |-> 16, mental_resistance |-> 3,
     fame |-> 14, revision |-> "2.0"]

\* two unnamed parts, none of them core
Swarm ==
    [name |-> "Swarm", category |-> "Animal", level |-> 1,
     part |-> <<MkPart("", NoneV, Some(5), 0, Some(8), Some(8), Some(0), 0, ""),
                MkPart("", Some(FALSE), Some(5), 0, Some(8), Some(8), Some(0), 0,
                       "")>>,
     initiative |-> 6, common_abilities |-> "", weakness |-> <<>>,
     moveon |-> 20, moveon_description |-> "flight", movein |-> 20,
     movein_description |-> "", data |-> "ML003",
     weakness_value |-> 8, life_resistance |-> 7, mental_resistance |-> 6,
     fame |-> 3, revision |-> "2.5"]

\* "part": [] loads: nothing checks that a record has a part
Wisp ==
    [name |-> "Wisp", category |-> "Undead", level |-> 3, part |-> <<>>,
     initiative |-> 9, common_abilities |-> "", weakness |-> <<>>,
     moveon |-> 12, moveon_description |-> "", movein |-> -1,
     movein_description |-> "", data |-> "ML004",
     weakness_value |-> 12, life_resistance |-> 9, mental_resistance |-> 9,
     fame |-> 9, revision |-> "2.0"]

Monsters == {Goblin, Treant, Swarm, Wisp}

\* the f32 values that are not numbers of JSON
NonFinite == {"inf", "-inf", "NaN"}

RECURSIVE SeqsUpTo(_, _)
SeqsUpTo(S, n) ==
    IF n = 0 THEN {<<>>}
    ELSE LET shorter == SeqsUpTo(S, n - 1) IN
         shorter \cup {Append(q, e) : q \in {t \in shorter : Len(t) = n - 1}, e \in S}

RecordLists == SeqsUpTo(Monsters, MaxRecords)

-----------------------------------------------------------------------------
(* Text as a sequence of characters.  A character outside ASCII is written *)
(* as one token: <e> <ne> <ru> <gi> <long> spell the katakana of "energy",  *)
(* <da> <me> <long> <ji> those of "damage", <zoku> <sei> the two kanji of   *)
(* "attribute", <star> is the core marker U+2605; <honoo>, <jun>, <ma>,     *)
(* <hou> are other kanji.                                                    *)

StartsWith(s, pat) ==
    Len(pat) <= Len(s) /\ SubSeq(s, 1, Len(pat)) = pat

\* str::replace: every non-overlapping match of pat, left to right
RECURSIVE replace(_, _, _)
replace(s, pat, rep) ==
    IF s = <<>> THEN <<>>
    ELSE IF StartsWith(s, pat)
    THEN rep \o replace(SubSeq(s, Len(pat) + 1, Len(s)), pat, rep)
    ELSE <<Head(s)>> \o replace(Tail(s), pat, rep)

Pat_energy == <<"<e>","<ne>","<ru>","<gi>","<long>">>
Pat_damage == <<"<da>","<me>","<long>","<ji>">>
Pat_attribute == <<"<zoku>","<sei>">>

\* a transform that deletes the attribute first
transform_weakness_attribute_first(weakness) ==
    replace(replace(replace(weakness, Pat_attribute, <<>>),
                    Pat_energy, <<"E">>),
            Pat_damage, <<"<da>","<me>">>)

\* DataTransformer::transform_weakness of udonarium/data_transformer.rs, which
\* XmlGenerator::transform_weakness calls
transform_weakness(weakness) ==
    replace(replace(replace(weakness, Pat_energy, <<"E">>),
                    Pat_damage, <<"<da>","<me>">>),
            Pat_attribute, <<>>)

\* DataTransformer::transform_weakness of sheets.rs
sheets_transform_weakness(weakness) ==
    LET transformed ==
          replace(replace(replace(weakness, Pat_energy, <<"E">>),
                          Pat_damage, <<"<da>","<me>">>),
                  Pat_attribute, <<>>)
    IN transformed

-----------------------------------------------------------------------------
(* Sheets: DataTransformer (sheets.rs) *)

RowWidth == 54

\* "-" for the sentinel, else the value, with the note when there is one
movement_cell(value, description) ==
    IF value = -1 THEN "-"
    ELSE IF description = "" THEN ToString(value)
    ELSE ToString(value) \o "\n(" \o description \o ")"

\* a name cell that marks every part not flagged as no core
name_value_unless_false(monster, part) ==
    LET plain == IF part.name = "" THEN monster.name
                 ELSE monster.name \o "\n(" \o part.name \o ")"
    IN IF part.core # Some(FALSE) THEN "<star>" \o plain ELSE plain

\* create_odd_row, lines 60-70: the text of column A
name_value(monster, part) ==
    LET plain == IF part.name = "" THEN monster.name
                 ELSE monster.name \o "\n(" \o part.name \o ")"
    IN IF unwrap_or(part.core, FALSE) THEN "<star>" \o plain ELSE plain

\* DataTransformer::create_odd_row
create_odd_row(monster, part, is_first_part) ==
    [c \in 0..(RowWidth - 1) |->
        CASE c = 0 -> Some(name_value(monster, part))
          [] c = 11 -> IF part.hp.some THEN Some(ToString(part.hp.val)) ELSE NoneV
          [] c = 15 -> IF part.mp >= 0 THEN Some(ToString(part.mp)) ELSE Some("-")
          [] c = 17 -> Some(ToString(part.armor))
          [] c = 19 -> IF is_first_part THEN Some(ToString(monster.initiative))
                       ELSE Some("-")
          [] c = 21 -> IF is_first_part THEN Some(ToString(monster.life_resistance))
                       ELSE Some("-")
          [] c = 23 -> IF is_first_part THEN Some(ToString(monster.mental_resistance))
                       ELSE Some("-")
          [] c = 25 -> Some("3")
          [] c = 27 -> Some(movement_cell(monster.moveon, monster.moveon_description))
          [] c = 29 -> Some(movement_cell(monster.movein, monster.movein_description))
          [] c = 31 -> IF part.hit_rate.some THEN Some(ToString(part.hit_rate.val))
                       ELSE NoneV
          [] c = 33 -> IF part.dodge.some THEN Some(ToString(part.dodge.val))
                       ELSE NoneV
          [] c = 35 -> Some(monster.data)
          [] c = 38 -> IF monster.common_abilities # ""
                       THEN Some(monster.common_abilities) ELSE NoneV
          [] c = 48 -> IF is_first_part
                       THEN Some(ToString(monster.fame) \o "/"
                                 \o ToString(monster.weakness_value))
                       ELSE Some("-/-")
          [] OTHER -> NoneV]

\* an even row that shows the weakness with every part
create_even_row_every_part(monster, part, is_first_part) ==
    [c \in 0..(RowWidth - 1) |->
        CASE c = 38 -> IF part.special_abilities # ""
                       THEN Some(part.special_abilities) ELSE NoneV
          [] c = 48 -> IF monster.weakness # <<>>
                       THEN Some(transform_weakness(monster.weakness))
                       ELSE Some("-")
          [] OTHER -> NoneV]

\* DataTransformer::create_even_row; the weakness cell holds the transformed
\* text, a sequence of characters
create_even_row(monster, part, is_first_part) ==
    [c \in 0..(RowWidth - 1) |->
        CASE c = 38 -> IF part.special_abilities # ""
                       THEN Some(part.special_abilities) ELSE NoneV
          [] c = 48 -> IF is_first_part
                       THEN IF monster.weakness # <<>>
                            THEN Some(sheets_transform_weakness(monster.weakness))
                            ELSE Some("-")
                       ELSE Some("-")
          [] OTHER -> NoneV]

\* rows numbered one per part
transform_monster_one_row_apart(monster, start) ==
    [k \in 1..(2 * Len(monster.part)) |->
        LET part_index == (k - 1) \div 2
            part == monster.part[part_index + 1]
            is_first_part == part_index = 0 IN
        IF k % 2 = 1
        THEN [row_number |-> start + part_index,
              values |-> create_odd_row(monster, part, is_first_part),
              is_merged_row |-> FALSE]
        ELSE [row_number |-> start + part_index + 1,
              values |-> create_even_row(monster, part, is_first_part),
              is_merged_row |-> FALSE]]

\* DataTransformer::transform_monster: rows 2k-1 and 2k of the result are the
\* odd and the even row of part k (part_index k - 1)
transform_monster(monster, start) ==
    [k \in 1..(2 * Len(monster.part)) |->
        LET part_index == (k - 1) \div 2
            part == monster.part[part_index + 1]
            is_first_part == part_index = 0 IN
        IF k % 2 = 1
        THEN [row_number |-> start + part_index * 2,
              values |-> create_odd_row(monster, part, is_first_part),
              is_merged_row |-> FALSE]
        ELSE [row_number |-> start + part_index * 2 + 1,
              values |-> create_even_row(monster, part, is_first_part),
              is_merged_row |-> FALSE]]

-----------------------------------------------------------------------------
(* Udonarium: PartNamer (part_namer.rs) *)

\* PartNamer::new: how many parts carry the name
name_counts(parts, name) ==
    Cardinality({i \in DOMAIN parts : parts[i].name = name})

\* a counter that starts at 1
occurrence_index_from_one(parts, i) ==
    Cardinality({j \in 1..i : parts[j].name = parts[i].name})

\* generate_names: the counter of the part at (1-based) position i, the number
\* of earlier parts with its name
occurrence_index(parts, i) ==
    Cardinality({j \in 1..(i - 1) : parts[j].name = parts[i].name})

\* PartNamer::generate_name
generate_name(monster_name, part, index, count) ==
    LET is_core == unwrap_or(part.core, FALSE) IN
    IF part.name = ""
    THEN IF is_core
         THEN [filename |-> monster_name, display_name |-> monster_name]
         ELSE [filename |-> monster_name \o "_" \o ToString(index),
               display_name |-> monster_name \o "_" \o ToString(index)]
    ELSE IF count > 1
    THEN [filename |-> monster_name \o "_" \o part.name \o "_" \o ToString(index),
          display_name |-> monster_name \o "\n(" \o part.name \o ")"]
    ELSE [filename |-> monster_name \o "_" \o part.name,
          display_name |-> monster_name \o "\n(" \o part.name \o ")"]

\* PartNamer::generate_names
generate_names(parts, monster_name) ==
    [i \in DOMAIN parts |->
        generate_name(monster_name, parts[i], occurrence_index(parts, i),
                      name_counts(parts, parts[i].name))]

-----------------------------------------------------------------------------
(* Udonarium: DataTransformer (udonarium/data_transformer.rs) *)

\* a transform that gives the weakness to every part
transform_weakness_everywhere(monster, display_names) ==
    [name |-> monster.name, category |-> monster.category,
     level |-> monster.level, fame |-> monster.fame,
     initiative |-> monster.initiative,
     common_abilities |-> monster.common_abilities,
     parts |-> [i \in DOMAIN monster.part |->
        LET part == monster.part[i] IN
        [display_name |-> IF i \in DOMAIN display_names THEN display_names[i] ELSE "",
         hp |-> unwrap_or(part.hp, 0),
         mp |-> IF part.mp < 0 THEN 0 ELSE part.mp,
         armor |-> part.armor,
         hit_rate |-> unwrap_or(part.hit_rate, 0),
         dodge |-> unwrap_or(part.dodge, 0),
         damage |-> unwrap_or(part.damage, 0),
         life_resistance |-> monster.life_resistance,
         mental_resistance |-> monster.mental_resistance,
         special_abilities |-> part.special_abilities,
         is_core |-> unwrap_or(part.core, FALSE),
         weakness |-> monster.weakness,
         weakness_value |-> monster.weakness_value]]]

\* DataTransformer::transform
transform(monster, display_names) ==
    [name |-> monster.name, category |-> monster.category,
     level |-> monster.level, fame |-> monster.fame,
     initiative |-> monster.initiative,
     common_abilities |-> monster.common_abilities,
     parts |-> [i \in DOMAIN monster.part |->
        LET part == monster.part[i]
            is_core == unwrap_or(part.core, FALSE) IN
        [display_name |-> IF i \in DOMAIN display_names THEN display_names[i] ELSE "",
         hp |-> unwrap_or(part.hp, 0),
         mp |-> IF part.mp < 0 THEN 0 ELSE part.mp,
         armor |-> part.armor,
         hit_rate |-> unwrap_or(part.hit_rate, 0),
         dodge |-> unwrap_or(part.dodge, 0),
         damage |-> unwrap_or(part.damage, 0),
         life_resistance |-> monster.life_resistance,
         mental_resistance |-> monster.mental_resistance,
         special_abilities |-> part.special_abilities,
         is_core |-> is_core,
         weakness |-> IF is_core THEN monster.weakness ELSE <<>>,
         weakness_value |-> IF is_core THEN monster.weakness_value ELSE 0]]]

\* the bounds of i32
I32Max == 2147483647
I32Min == -I32Max - 1

\* value - n in i32 overflows (0 <= n)
sub_overflows(value, n) == value < I32Min + n

\* value - n in i32 where overflow is not checked: it wraps around
wrapping_sub(value, n) ==
    IF sub_overflows(value, n) THEN I32Max - ((I32Min + n - 1) - value)
    ELSE value - n

\* DataTransformer::adjust_value where the subtraction does not panic
adjust_value(value) == Max(wrapping_sub(value, 7), 0)

-----------------------------------------------------------------------------
(* Udonarium: XmlGenerator (udonarium/xml_generator.rs) *)

\* the values the templates' placeholders receive, in template order; the
\* text between the placeholders is fixed per template
common_slots(monster, part) ==
    [name |-> part.display_name,
     hp_current |-> part.hp, hp |-> part.hp,
     mp_current |-> part.mp, mp |-> part.mp,
     armor_current |-> part.armor, armor |-> part.armor,
     hit_rate |-> adjust_value(part.hit_rate),
     damage |-> part.damage,
     dodge |-> adjust_value(part.dodge),
     life_resistance |-> adjust_value(part.life_resistance),
     mental_resistance |-> adjust_value(part.mental_resistance),
     ability1 |-> monster.common_abilities,
     ability2 |-> part.special_abilities]

\* The lines of a chat palette.  A line is its kind, the stats it reads
\* between braces, the number it adds and its label; "header" is a line
\* "//-----...", "blank" an empty line.
palette_header(label) == [kind |-> "header", refs |-> <<>>, plus |-> 0, label |-> label]
palette_blank == [kind |-> "blank", refs |-> <<>>, plus |-> 0, label |-> ""]

\* C({a}+{b}-()) and C{a}: the running totals
helper_line(refs, label) == [kind |-> "helper", refs |-> refs, plus |-> 0, label |-> label]

\* a judgment line that adds nothing to the stat
fixed_value_line_plain(stat, label) ==
    [kind |-> "fixed", refs |-> <<stat>>, plus |-> 0, label |-> label]

\* C({stat}+7)
fixed_value_line(stat, label) ==
    [kind |-> "fixed", refs |-> <<stat>>, plus |-> 7, label |-> label]

\* 2d+{stat}
dice_line(stat, label) == [kind |-> "dice", refs |-> <<stat>>, plus |-> 0, label |-> label]

\* the chat-palette element of generate_core_part_xml, lines 72-90
chat_palette_core ==
    << palette_header("keisan"),
       helper_line(<<"hp", "armor", "damage_reduction">>, "remaining HP (physical)"),
       helper_line(<<"hp", "damage_reduction">>, "remaining HP (magic)"),
       helper_line(<<"mp">>, "MP spent"),
       helper_line(<<"hp">>, "current HP"),
       helper_line(<<"mp">>, "current MP"),
       palette_blank,
       palette_header("kotei-chi hantei"),
       fixed_value_line("hit_rate", "hit (fixed)"),
       fixed_value_line("dodge", "dodge (fixed)"),
       fixed_value_line("life_resistance", "life resistance (fixed)"),
       fixed_value_line("mental_resistance", "mental resistance (fixed)"),
       palette_blank,
       palette_header("dice hantei"),
       dice_line("hit_rate", "hit"),
       dice_line("damage", "damage roll"),
       dice_line("dodge", "dodge"),
       dice_line("life_resistance", "life resistance"),
       dice_line("mental_resistance", "mental resistance") >>

\* a palette with the dice section before the fixed-value section
chat_palette_dice_first ==
    << palette_header("keisan"),
       helper_line(<<"hp", "armor", "damage_reduction">>, "remaining HP (physical)"),
       helper_line(<<"hp", "damage_reduction">>, "remaining HP (magic)"),
       helper_line(<<"mp">>, "MP spent"),
       helper_line(<<"hp">>, "current HP"),
       helper_line(<<"mp">>, "current MP"),
       palette_blank,
       palette_header("dice hantei"),
       dice_line("hit_rate", "hit"),
       dice_line("damage", "damage roll"),
       dice_line("dodge", "dodge"),
       dice_line("life_resistance", "life resistance"),
       dice_line("mental_resistance", "mental resistance"),
       palette_blank,
       palette_header("kotei-chi hantei"),
       fixed_value_line("hit_rate", "hit (fixed)"),
       fixed_value_line("dodge", "dodge (fixed)"),
       fixed_value_line("life_resistance", "life resistance (fixed)"),
       fixed_value_line("mental_resistance", "mental resistance (fixed)") >>

\* the chat-palette element of generate_non_core_part_xml, lines 154-172
chat_palette_non_core ==
    << palette_header("keisan"),
       helper_line(<<"hp", "armor", "damage_reduction">>, "remaining HP (physical)"),
       helper_line(<<"hp", "damage_reduction">>, "remaining HP (magic)"),
       helper_line(<<"mp">>, "MP spent"),
       helper_line(<<"hp">>, "current HP"),
       helper_line(<<"mp">>, "current MP"),
       palette_blank,
       palette_header("kotei-chi hantei"),
       fixed_value_line("hit_rate", "hit (fixed)"),
       fixed_value_line("dodge", "dodge (fixed)"),
       fixed_value_line("life_resistance", "life resistance (fixed)"),
       fixed_value_line("mental_resistance", "mental resistance (fixed)"),
       palette_blank,
       palette_header("dice hantei"),
       dice_line("hit_rate", "hit"),
       dice_line("damage", "damage roll"),
       dice_line("dodge", "dodge"),
       dice_line("life_resistance", "life resistance"),
       dice_line("mental_resistance", "mental resistance") >>

\* XmlGenerator::generate_core_part_xml
generate_core_part_xml(monster, part) ==
    Ok([template |-> "core", slots |-> common_slots(monster, part),
        palette |-> chat_palette_core,
        prep |-> <<monster.fame, part.weakness_value, monster.initiative>>,
        weakness |-> transform_weakness(part.weakness),
        species |-> <<monster.category, monster.level>>])

\* XmlGenerator::generate_non_core_part_xml
generate_non_core_part_xml(monster, part) ==
    Ok([template |-> "non_core", slots |-> common_slots(monster, part),
        palette |-> chat_palette_non_core])

\* a generator with one template for every part
generate_xml_core_template(transformed, part_index) ==
    IF part_index >= Len(transformed.parts)
    THEN Err("String", "Part index out of bounds")
    ELSE generate_core_part_xml(transformed, transformed.parts[part_index + 1])

\* XmlGenerator::generate_xml; part_index counts from 0
generate_xml(transformed, part_index) ==
    IF part_index >= Len(transformed.parts)
    THEN Err("String", "Part index out of bounds")
    ELSE LET part == transformed.parts[part_index + 1] IN
         IF part.is_core THEN generate_core_part_xml(transformed, part)
         ELSE generate_non_core_part_xml(transformed, part)

-----------------------------------------------------------------------------
(* Paths: a destination is the sequence of its components, "" is <<>> *)

RECURSIVE path_len(_)
\* str::len of the destination, '/' between components
path_len(d) ==
    IF d = <<>> THEN 0
    ELSE IF Len(d) = 1 THEN Len(d[1])
    ELSE Len(d[1]) + 1 + path_len(Tail(d))

\* Path::parent: None for "", the empty path for a bare file name
path_parent(d) ==
    IF d = <<>> THEN NoneV ELSE Some(SubSeq(d, 1, Len(d) - 1))

Destinations ==
    { <<>>,
      <<"out.zip">>,
      <<"outdir", "out.zip">>,
      <<"sheet-id-15char">>,
      <<"1BxiMVs0XRA5nFMKUVfIz487hJblLvZQvq_fHM9GjMhs">> }

\* the entries of a function given as a set of <<key, value>> pairs
FileAt(fs, path) == CHOOSE e \in fs : e[1] = path
HasFile(fs, path) == \E e \in fs : e[1] = path
WriteFile(fs, path, content) ==
    {e \in fs : e[1] # path} \cup {<<path, content>>}

-----------------------------------------------------------------------------
(* JSON exporter (json.rs) *)

json_option(o) == IF o.some THEN [json |-> "value", v |-> o.val] ELSE [json |-> "null"]

\* serde_json writes an f32 that is infinite or not a number as null
json_f32(x) == IF x \in NonFinite THEN [json |-> "null"] ELSE [json |-> "value", v |-> x]

\* serde's view of a Part and a Monster: the renamed keys, absent options null
serialize_part(part) ==
    [HP |-> json_option(part.hp), MP |-> part.mp, name |-> part.name,
     core |-> json_option(part.core),
     hit_rate |-> json_option(part.hit_rate), dodge |-> json_option(part.dodge),
     damage |-> json_option(part.damage),
     special |-> part.special_abilities, armor |-> part.armor]

serialize_monster(m) ==
    [Category |-> m.category, Lv |-> m.level, Revision |-> json_f32(m.revision),
     data |-> m.data, movein |-> m.movein, movein_des |-> m.movein_description,
     moveon |-> m.moveon, moveon_des |-> m.moveon_description,
     name |-> m.name,
     part |-> [i \in DOMAIN m.part |-> serialize_part(m.part[i])],
     initiative |-> m.initiative, common_abilities |-> m.common_abilities,
     weakness |-> m.weakness, weakness_value |-> m.weakness_value,
     life_resistance |-> m.life_resistance, fame |-> m.fame,
     mental_resistance |-> m.mental_resistance]

\* a writer that starts with the last record
to_string_pretty_reversed(records) ==
    IF records = <<>> THEN <<[t |-> "[]"]>>
    ELSE <<[t |-> "["]>>
         \o [i \in DOMAIN records |->
               [t |-> "object", v |-> serialize_monster(records[Len(records) + 1 - i])]]
         \o <<[t |-> "]"]>>

\* serde_json::to_string_pretty of a slice: "[]" for the empty slice, else
\* one object per record between "[" and "]"
to_string_pretty(records) ==
    IF records = <<>> THEN <<[t |-> "[]"]>>
    ELSE <<[t |-> "["]>>
         \o [i \in DOMAIN records |-> [t |-> "object", v |-> serialize_monster(records[i])]]
         \o <<[t |-> "]"]>>

-----------------------------------------------------------------------------
(* OAuth credentials (auth.rs) *)

ErrC(kind, msg, cause) == [tag |-> "Err", kind |-> kind, msg |-> msg, cause |-> cause]

\* no credentials loaded, no OAuth flow run: the nonce of the flow, the request
\* its listener took and what the listener returned, the number of requests
\* the listener handled, the credentials the exchange produced, and what the
\* last load_credentials returned
NoFlow == [nonce |-> "", request |-> NoneV, callback |-> Unset, handled |-> 0,
           credentials |-> NoneV, loaded |-> Unset]

\* an expiry test that lets the boundary second pass
is_expired_strict(credentials, t) == credentials.expires_at < t + ExpirySkew

\* OAuthCredentials::is_expired at clock reading t
is_expired(credentials, t) == credentials.expires_at <= t + ExpirySkew

\* GoogleSheetsAuth::load_credentials on the file, at clock reading t
load_credentials(file, t) ==
    IF file.state = "absent" THEN Err("MissingCredentials", "")
    ELSE IF file.state = "unreadable" THEN Err("CredentialsReadError", "")
    ELSE IF file.state = "unparseable" THEN Err("CredentialsParsError", "")
    ELSE IF is_expired(file, t)
    THEN Err("TokenRefreshFailed", "Token has expired. Please re-authenticate.")
    ELSE Ok([expires_at |-> file.expires_at])

\* a clear that leaves the file where it is
clear_credentials_kept(file) == file

\* GoogleSheetsAuth::clear_credentials
clear_credentials(file) ==
    IF file.state # "absent" THEN [state |-> "absent"] ELSE file

\* the query of a callback request as the HashMap collected from its pairs:
\* the last pair of a key wins
query_get(pairs, key) ==
    IF \E i \in DOMAIN pairs : pairs[i][1] = key
    THEN Some(pairs[CHOOSE i \in DOMAIN pairs :
                     /\ pairs[i][1] = key
                     /\ \A j \in DOMAIN pairs : pairs[j][1] = key => j <= i][2])
    ELSE NoneV

\* a handler that does not compare the state with the nonce
handle_callback_any_state(request, expected_state) ==
    IF request = [unparseable |-> TRUE] THEN Err("UrlParseError", "")
    ELSE LET error == query_get(request.pairs, "error")
             desc == query_get(request.pairs, "error_description")
             code == query_get(request.pairs, "code") IN
         IF error.some
         THEN Err("AuthenticationFailed",
                  error.val \o ": " \o unwrap_or(desc, "Unknown error"))
         ELSE IF code.some THEN Ok(code.val)
         ELSE Err("AuthenticationFailed", "Missing authorization code")

\* GoogleSheetsAuth::start_callback_server on the one request it takes,
\* lines 284-325; a request is its query pairs, or unparseable as a URL
handle_callback(request, expected_state) ==
    IF request = [unparseable |-> TRUE] THEN Err("UrlParseError", "")
    ELSE LET error == query_get(request.pairs, "error")
             desc == query_get(request.pairs, "error_description")
             state == query_get(request.pairs, "state")
             code == query_get(request.pairs, "code") IN
         IF error.some
         THEN Err("AuthenticationFailed",
                  error.val \o ": " \o unwrap_or(desc, "Unknown error"))
         ELSE IF state.some /\ state.val # expected_state
         THEN Err("AuthenticationFailed", "State mismatch")
         ELSE IF ~state.some
         THEN Err("AuthenticationFailed", "Missing state parameter")
         ELSE IF code.some THEN Ok(code.val)
         ELSE Err("AuthenticationFailed", "Missing authorization code")

-----------------------------------------------------------------------------
(* GoogleSheetsClient::find_empty_row, the scan of the read result *)

\* the i of "for i in (0..1000).step_by(2)"
ScanIndices == {i \in 0..(ScanEnd - 1) : i % ScanStep = 0}

\* the first i of the stepped range with i >= n (the loop of lines 140-147
\* returns at the first such i, the range being ascending)
first_at_least(n) ==
    CHOOSE i \in ScanIndices :
        i >= n /\ (i < ScanStep \/ i - ScanStep < n)

\* the first i of the stepped range with i > n
first_beyond(n) ==
    CHOOSE i \in ScanIndices :
        i > n /\ (i < ScanStep \/ i - ScanStep <= n)

\* a scan that takes the row after the n rows read, odd or even
find_empty_row_scan_next_row(n) ==
    IF n < ScanEnd THEN Ok(ColumnAFirst + n)
    ELSE Err("NoEmptyRows", "Failed to find empty row: no empty rows available")

\* a scan that takes the first candidate row strictly beyond n rows
find_empty_row_scan_strict(n) ==
    IF n = 0 THEN Ok(ColumnAFirst)
    ELSE IF \E i \in ScanIndices : i > n
         THEN Ok(ColumnAFirst + first_beyond(n))
         ELSE Err("NoEmptyRows", "Failed to find empty row: no empty rows available")

\* lines 124-149: n is the number of rows of the response's "values"
find_empty_row_scan(n) ==
    IF n = 0 THEN Ok(ColumnAFirst)
    ELSE IF \E i \in ScanIndices : i >= n
         THEN Ok(ColumnAFirst + first_at_least(n))
         ELSE Err("NoEmptyRows", "Failed to find empty row: no empty rows available")

-----------------------------------------------------------------------------
(* The row search on its own: every size of read result *)

\* what the variables the row search does not touch hold
OutsideExport ==
    /\ formatArg = <<>> /\ exporter = "none" /\ data = <<>> /\ destination = ""
    /\ result = Unset /\ homeSet = TRUE /\ credFile = [state |-> "absent"]
    /\ now = 0 /\ oauth = NoFlow /\ client = NoneV /\ idx = 0
    /\ sheet = {} /\ inFlight = {} /\ log = <<>> /\ io = {} /\ dirs = {}
    /\ files = {} /\ all_xml_files = <<>>

\* rows the range A3:A1000 can return, and a few more than a conforming
\* server returns
ReadSizes == 0..(ColumnALast - ColumnAFirst + 1 + ExtraValues)

InitFindRow ==
    /\ pc = "scan"
    /\ values \in ReadSizes
    /\ start_row = Unset
    /\ OutsideExport

\* find_empty_row from the parsed response on
ScanReadResult ==
    /\ pc = "scan"
    /\ start_row' = find_empty_row_scan(values)
    /\ pc' = "scanned"
    /\ UNCHANGED <<formatArg, exporter, data, destination, result, homeSet,
                   credFile, now, oauth, client, idx, sheet, inFlight, log, io,
                   dirs, files, values, all_xml_files>>

NextFindRow == ScanReadResult

SpecFindRow == InitFindRow /\ [][NextFindRow]_vars

-----------------------------------------------------------------------------
(* Claims about the row search *)

\* C4 (as stated): the start row is the first odd row 3, 5, 7, ... whose row
\* number exceeds the number of populated cells read.
C4_AsStated ==
    (pc = "scanned" /\ IsOk(start_row)) =>
        LET r == start_row.value IN
        /\ r % 2 = 1 /\ r >= ColumnAFirst /\ r > values
        /\ (r = ColumnAFirst \/ ~(r - ScanStep > values))

\* C4 (amended): whenever the read result has at most 998 rows (all that
\* A3:A1000 holds), the start row is the first odd row r of 3, 5, 7, ... whose
\* offset r - 3 is at least the number of rows of the read result.
C4_FirstRowAtOffset ==
    (pc = "scanned" /\ values <= ColumnALast - ColumnAFirst + 1) =>
        /\ IsOk(start_row)
        /\ LET r == start_row.value IN
           /\ r % 2 = 1 /\ r >= ColumnAFirst /\ r - ColumnAFirst >= values
           /\ (r = ColumnAFirst \/ ~(r - ScanStep - ColumnAFirst >= values))

C4_Witness ==
    pc = "scanned" /\ values = 3 /\ start_row = Ok(7)

\* C5: the row search never returns a row outside rows 3 to 1000; when no odd
\* row of that range lies beyond the rows read it fails with NoEmptyRows.
C5_WithinRange ==
    pc = "scanned" =>
        /\ IsOk(start_row) => start_row.value \in ColumnAFirst..ColumnALast
        /\ (~\E r \in ColumnAFirst..ColumnALast :
                r % 2 = 1 /\ r - ColumnAFirst >= values)
             => (IsErr(start_row) /\ start_row.kind = "NoEmptyRows")

\* the rows of the sheet that a read result of n rows holds: A3 and the n - 1
\* rows after it
RowsRead(n) == ColumnAFirst..(ColumnAFirst + n - 1)

-----------------------------------------------------------------------------
(* The export command: export_results and the three exporters *)

\* --export arguments: the spellings from_str knows, other cases of them, and
\* strings it does not know
Chars_csv == <<"c","s","v">>
CanonicalFormats == {Chars_json, Chars_sheets, Chars_udonarium}
OtherFormats ==
    { <<"J","S","O","N">>, <<"J","s","o","N">>,
      <<"S","H","E","E","T","S">>, Chars_google_sheets, Chars_googlesheets,
      <<"G","o","o","g","l","e","-","S","h","e","e","t","s">>,
      <<"G","O","O","G","L","E","S","H","E","E","T","S">>,
      <<"U","D","O","N","A","R","I","U","M">>, <<"U","d","o","n","a","r","i","u","m">>,
      Chars_csv, <<"C","S","V">>, <<>>, <<"x","m","l">>, <<"j","s","o","n"," ">>,
      <<"j","s","o","n","s">>, <<"s","h","e","e","t">>,
      <<"g","o","o","g","l","e","_","s","h","e","e","t","s">>,
      <<"g","o","o","g","l","e">>, <<"u","d","o","n">>, <<"z","i","p">> }

ValidSheetId == <<"1BxiMVs0XRA5nFMKUVfIz487hJblLvZQvq_fHM9GjMhs">>

\* time the command starts at
StartTime == 1000

\* the stored credentials the command may find
StoredCredentials ==
    { [state |-> "absent"], [state |-> "unreadable"], [state |-> "unparseable"] }
    \cup { [state |-> "valid", expires_at |-> e] :
             e \in { StartTime - 1, StartTime + ExpirySkew,
                     StartTime + ExpirySkew + 1, StartTime + 3600 } }

\* column A of the sheet before the export: the populated rows
SheetInits == { {}, {3}, {3, 6}, {999} }

Init ==
    /\ pc = "cli"
    /\ exporter = "none" /\ result = Unset
    /\ now = StartTime
    /\ oauth = NoFlow /\ client = NoneV
    /\ idx = 0 /\ start_row = Unset /\ values = 0
    /\ inFlight = {} /\ log = <<>> /\ io = {} /\ files = {}
    /\ all_xml_files = <<>>
    /\ \/ \* the canonical spellings, on every input
          /\ formatArg \in CanonicalFormats
          /\ data \in RecordLists
          /\ destination \in Destinations
          /\ IF formatArg = Chars_sheets
             THEN /\ homeSet \in BOOLEAN
                  /\ credFile \in StoredCredentials
                  /\ sheet \in SheetInits
                  /\ dirs = {}
             ELSE /\ homeSet = TRUE
                  /\ credFile = [state |-> "absent"]
                  /\ sheet = {}
                  /\ dirs \in { {}, {<<"outdir">>} }
       \/ \* every other spelling, on one record or none
          /\ formatArg \in OtherFormats
          /\ data \in { <<>>, <<Goblin>> }
          /\ destination \in { <<"out.zip">>, ValidSheetId }
          /\ homeSet = TRUE
          /\ credFile = [state |-> "valid", expires_at |-> StartTime + 3600]
          /\ sheet = {} /\ dirs = {}

Monster(i) == data[i]

\* export_results: parse the format, on failure print and exit(1); else build
\* the exporter and the config and call export
export_results ==
    /\ pc = "cli"
    /\ LET parsed == from_str(formatArg) IN
       IF IsErr(parsed)
       THEN /\ result' = parsed
            /\ pc' = "exit"
            /\ UNCHANGED exporter
       ELSE /\ exporter' = create_exporter(parsed.value)
            /\ pc' = "export"
            /\ UNCHANGED result
    /\ UNCHANGED <<inputVars, authVars, remoteVars, fsVars, now, idx, start_row,
                   io, values, all_xml_files>>

\* JsonExporter::export
JsonExport ==
    /\ pc = "export" /\ exporter = "JSON Exporter"
    /\ pc' = "exit"
    /\ LET parent == path_parent(destination) IN
       IF parent.some /\ parent.val # <<>> /\ parent.val \notin dirs
       THEN /\ result' = Err("InvalidDestination", "Output directory does not exist")
            /\ io' = io \cup {"stat"}
            /\ UNCHANGED files
       ELSE \E written \in BOOLEAN :
            /\ destination = <<>> => ~written
            /\ io' = io \cup ((IF parent.some /\ parent.val # <<>> THEN {"stat"} ELSE {})
                              \cup {"fs_write"})
            /\ IF written
               THEN /\ files' = WriteFile(files, destination, to_string_pretty(data))
                    /\ result' = Ok("unit")
               ELSE /\ result' = Err("IoError", "write failed")
                    /\ UNCHANGED files
    /\ UNCHANGED <<inputVars, authVars, remoteVars, dirs, exporter, now, idx,
                   start_row, values, all_xml_files>>

\* UdonariumExporter::export, lines 29-35: create_dir_all of the parent, if
\* the destination has one, and the entry to the loop
UdonCreateDir ==
    LET parent == path_parent(destination) IN
    IF ~parent.some
    THEN /\ pc' = "udon_loop" /\ idx' = 1
         /\ UNCHANGED <<dirs, io, result>>
    ELSE \E created \in BOOLEAN :
         /\ io' = io \cup {"create_dir_all"}
         /\ IF created
            THEN /\ dirs' = IF parent.val = <<>> THEN dirs
                            ELSE dirs \cup {parent.val}
                 /\ pc' = "udon_loop" /\ idx' = 1
                 /\ UNCHANGED result
            ELSE /\ result' = Err("IoError", "create_dir_all failed")
                 /\ pc' = "exit"
                 /\ UNCHANGED <<dirs, idx>>

\* an export that begins with the directory, whatever the list
UdonBegin_unchecked ==
    /\ pc = "export" /\ exporter = "Udonarium Exporter"
    /\ UdonCreateDir
    /\ UNCHANGED <<inputVars, authVars, remoteVars, files, exporter, now,
                   start_row, values, all_xml_files>>

\* UdonariumExporter::export, lines 19-35: the empty check, then the directory
UdonBegin ==
    /\ pc = "export" /\ exporter = "Udonarium Exporter"
    /\ IF data = <<>>
       THEN /\ result' = Err("GoogleSheetsError", "Cannot export empty monster list")
            /\ pc' = "exit"
            /\ UNCHANGED <<dirs, io, idx>>
       ELSE UdonCreateDir
    /\ UNCHANGED <<inputVars, authVars, remoteVars, files, exporter, now,
                   start_row, values, all_xml_files>>

\* entries named by the display names
monster_xml_files_display(monster) ==
    LET part_names == generate_names(monster.part, monster.name)
        display_names == [i \in DOMAIN part_names |-> part_names[i].display_name]
        transformed == transform(monster, display_names)
    IN Ok([i \in DOMAIN transformed.parts |->
             <<part_names[i].display_name \o ".xml",
               generate_xml(transformed, i - 1).value>>])

\* the (file name, XML) pairs of one monster, or the first generate_xml error:
\* lines 38-67
monster_xml_files(monster) ==
    LET part_names == generate_names(monster.part, monster.name)
        display_names == [i \in DOMAIN part_names |-> part_names[i].display_name]
        transformed == transform(monster, display_names)
        xmls == [i \in DOMAIN transformed.parts |-> generate_xml(transformed, i - 1)]
    IN IF \E i \in DOMAIN xmls : IsErr(xmls[i])
       THEN Err("GoogleSheetsError", "XML generation failed")
       ELSE Ok([i \in DOMAIN xmls |->
                  <<part_names[i].filename \o ".xml", xmls[i].value>>])

\* one iteration of "for monster in data"
UdonGenerate ==
    /\ pc = "udon_loop" /\ idx <= Len(data)
    /\ LET made == monster_xml_files(Monster(idx)) IN
       IF IsErr(made)
       THEN /\ result' = made /\ pc' = "exit"
            /\ UNCHANGED <<idx, all_xml_files>>
       ELSE /\ all_xml_files' = all_xml_files \o made.value
            /\ idx' = idx + 1
            /\ UNCHANGED <<pc, result>>
    /\ UNCHANGED <<inputVars, authVars, remoteVars, fsVars, exporter, now,
                   start_row, io, values>>

\* ZipFileWriter::create_zip and the end of export; File::create, the entries
\* in order, finish; any of them may fail
UdonZip ==
    /\ pc = "udon_loop" /\ idx > Len(data)
    /\ pc' = "exit"
    /\ io' = io \cup {"file_create"}
    /\ \E failed_at \in 0..(Len(all_xml_files) + 2) :
       \* 0: File::create fails; k in 1..n: entry k fails; n + 1: finish fails;
       \* n + 2: nothing fails
       LET n == Len(all_xml_files) IN
       /\ destination = <<>> => failed_at = 0
       /\ IF failed_at = 0
          THEN /\ UNCHANGED files
               /\ result' = Err("GoogleSheetsError", "Failed to create ZIP file")
          ELSE /\ files' = WriteFile(files, destination,
                     [entries |-> SubSeq(all_xml_files, 1, Min(failed_at - 1, n)),
                      finished |-> failed_at = n + 2])
               /\ result' = IF failed_at = n + 2 THEN Ok("unit")
                            ELSE Err("GoogleSheetsError", "Failed to create ZIP file")
    /\ UNCHANGED <<inputVars, authVars, remoteVars, dirs, exporter, now, idx,
                   start_row, values, all_xml_files>>

-----------------------------------------------------------------------------
(* Google Sheets exporter (google_sheets.rs, sheets_api.rs, auth.rs) *)

\* clock readings after the first the command can see
MaxTicks == 1
\* query pairs of a callback request
MaxPairs == 2

Nonces == {"nonce-a", "nonce-b"}
QueryPairs ==
    { <<"error", "access_denied">>, <<"error_description", "denied">>,
      <<"code", "4/0AX4">> }
    \cup { <<"state", n>> : n \in Nonces }
CallbackRequests ==
    { [pairs |-> q] : q \in SeqsUpTo(QueryPairs, MaxPairs) }
    \cup { [unparseable |-> TRUE] }

\* expires_in of a token response
Lifetimes == {0, ExpirySkew, ExpirySkew + 1, 3599}

\* time passes between two readings of the clock; the clock is read from
\* load_credentials to the end of GoogleSheetsClient::new
Tick ==
    /\ pc \in {"auth_config", "auth_browser", "auth_callback", "auth_exchange",
               "auth_save", "client_new", "client_check"}
    /\ now < StartTime + MaxTicks
    /\ now' = now + 1
    /\ UNCHANGED <<pc, inputVars, authVars, remoteVars, fsVars, exporter, result,
                   idx, start_row, io, values, all_xml_files>>

\* google_sheets.rs validate_spreadsheet_id
validate_spreadsheet_id_exporter(id) ==
    IF path_len(id) = 0
    THEN Err("InvalidDestination", "Spreadsheet ID cannot be empty.")
    ELSE IF path_len(id) < MinIdLenExporter
    THEN Err("InvalidDestination", "Invalid spreadsheet ID")
    ELSE Ok("unit")

\* sheets_api.rs validate_spreadsheet_id
validate_spreadsheet_id_client(id) ==
    IF path_len(id) = 0
    THEN Err("InvalidSpreadsheetId", "Spreadsheet ID cannot be empty")
    ELSE IF path_len(id) < MinIdLenClient
    THEN Err("InvalidSpreadsheetId", "Spreadsheet ID is too short")
    ELSE Ok("unit")

\* GoogleSheetsExporter::export, lines 10-25
SheetsBegin ==
    /\ pc = "export" /\ exporter = "Google Sheets Exporter"
    /\ LET valid == validate_spreadsheet_id_exporter(destination) IN
       IF IsErr(valid)
       THEN /\ result' = valid /\ pc' = "exit"
       ELSE IF data = <<>>
       THEN /\ result' = Err("GoogleSheetsError",
                             "Cannot export empty monster list. Please filter data first.")
            /\ pc' = "exit"
       ELSE IF ~homeSet
       THEN /\ result' = ErrC("GoogleSheetsError", "Authentication error",
                              Err("MissingCredentials", ""))
            /\ pc' = "exit"
       ELSE /\ pc' = "load_credentials"
            /\ UNCHANGED result
    /\ UNCHANGED <<inputVars, authVars, remoteVars, fsVars, exporter, now, idx,
                   start_row, io, values, all_xml_files>>

\* lines 28-48: load the stored credentials; missing ones start the OAuth
\* flow, any other failure clears the file and fails. remove_file may fail,
\* and "let _ =" drops its error
SheetsLoadCredentials ==
    /\ pc = "load_credentials"
    /\ LET loaded == load_credentials(credFile, now) IN
       /\ IF IsOk(loaded)
          THEN /\ pc' = "client_new"
               /\ io' = io \cup {"cred_stat", "cred_read"}
               /\ UNCHANGED <<result, credFile>>
          ELSE IF loaded.kind = "MissingCredentials"
          THEN /\ pc' = "auth_config"
               /\ io' = io \cup {"cred_stat"}
               /\ UNCHANGED <<result, credFile>>
          ELSE /\ \E removed \in BOOLEAN :
                    /\ credFile' = IF removed THEN clear_credentials(credFile)
                                   ELSE credFile
                    /\ io' = io \cup {"cred_stat", "cred_read", "cred_remove"}
                                \cup (IF removed THEN {} ELSE {"cred_remove_failed"})
               /\ result' = ErrC("GoogleSheetsError", "Failed to load credentials", loaded)
               /\ pc' = "exit"
       /\ oauth' = [oauth EXCEPT !.loaded = loaded]
    /\ UNCHANGED <<inputVars, client, remoteVars, fsVars, exporter, now,
                   idx, start_row, values, all_xml_files>>

\* export's answer to a failed authenticate()
oauth_failed(e) == ErrC("GoogleSheetsError", "OAuth authentication failed", e)

\* authenticate(), lines 235-239: the client config from the environment or
\* the config file
AuthLoadConfig ==
    /\ pc = "auth_config"
    /\ \E found \in BOOLEAN :
       IF found
       THEN /\ pc' = "auth_browser" /\ UNCHANGED result
       ELSE /\ result' = oauth_failed(Err("AuthenticationFailed",
                                          "Failed to load OAuth config"))
            /\ pc' = "exit"
    /\ io' = io \cup {"oauth_config"}
    /\ UNCHANGED <<inputVars, authVars, remoteVars, fsVars, exporter, now, idx,
                   start_row, values, all_xml_files>>

\* get_authorization_code, lines 255-265: a fresh state nonce, the browser
AuthOpenBrowser ==
    /\ pc = "auth_browser"
    /\ \E nonce \in Nonces, opened \in BOOLEAN :
       /\ oauth' = [oauth EXCEPT !.nonce = nonce]
       /\ IF opened
          THEN /\ pc' = "auth_callback" /\ UNCHANGED result
          ELSE /\ result' = oauth_failed(Err("AuthenticationFailed",
                                             "Failed to open browser"))
               /\ pc' = "exit"
    /\ io' = io \cup {"browser"}
    /\ UNCHANGED <<inputVars, credFile, client, remoteVars, fsVars, exporter,
                   now, idx, start_row, values, all_xml_files>>

\* start_callback_server: bind, take(1) of the incoming requests, answer it,
\* drop the server
AuthCallback ==
    /\ pc = "auth_callback"
    /\ io' = io \cup {"listen"}
    /\ \/ \* Server::http fails
          /\ oauth' = [oauth EXCEPT !.callback = Err("ServerError", "Failed to start server")]
          /\ result' = oauth_failed(Err("ServerError", "Failed to start server"))
          /\ pc' = "exit"
       \/ \* the listener ends without a request
          /\ oauth' = [oauth EXCEPT !.callback =
                         Err("AuthenticationFailed", "Server did not receive a request")]
          /\ result' = oauth_failed(Err("AuthenticationFailed",
                                        "Server did not receive a request"))
          /\ pc' = "exit"
       \/ \E request \in CallbackRequests :
          LET answer == handle_callback(request, oauth.nonce) IN
          /\ oauth' = [oauth EXCEPT !.request = Some(request),
                                    !.callback = answer,
                                    !.handled = @ + 1]
          /\ IF IsOk(answer)
             THEN /\ pc' = "auth_exchange" /\ UNCHANGED result
             ELSE /\ result' = oauth_failed(answer) /\ pc' = "exit"
    /\ UNCHANGED <<inputVars, credFile, client, remoteVars, fsVars, exporter,
                   now, idx, start_row, values, all_xml_files>>

\* an exchange that stores what it has before the answer is read
AuthExchange_stored_early ==
    /\ pc = "auth_exchange"
    /\ io' = io \cup {"http_token", "cred_write"}
    /\ credFile' = [state |-> "unparseable"]
    /\ \/ /\ result' = oauth_failed(Err("HttpError", "Token exchange failed"))
          /\ pc' = "exit"
          /\ oauth' = [oauth EXCEPT !.request = NoneV]
       \/ \E expires_in \in Lifetimes :
          /\ oauth' = [oauth EXCEPT !.request = NoneV,
                          !.credentials = Some([expires_at |-> now + expires_in])]
          /\ pc' = "auth_save"
          /\ UNCHANGED result
    /\ UNCHANGED <<inputVars, client, remoteVars, fsVars, exporter,
                   now, idx, start_row, values, all_xml_files>>

\* exchange_code_for_token: the POST, the parse, expires_at = now + expires_in
AuthExchange ==
    /\ pc = "auth_exchange"
    /\ io' = io \cup {"http_token"}
    /\ \/ /\ result' = oauth_failed(Err("HttpError", "Token exchange failed"))
          /\ pc' = "exit"
          /\ oauth' = [oauth EXCEPT !.request = NoneV]
       \/ /\ result' = oauth_failed(Err("AuthenticationFailed", "Invalid token response"))
          /\ pc' = "exit"
          /\ oauth' = [oauth EXCEPT !.request = NoneV]
       \/ \E expires_in \in Lifetimes :
          /\ oauth' = [oauth EXCEPT !.request = NoneV,
                          !.credentials = Some([expires_at |-> now + expires_in])]
          /\ pc' = "auth_save"
          /\ UNCHANGED result
    /\ UNCHANGED <<inputVars, credFile, client, remoteVars, fsVars, exporter,
                   now, idx, start_row, values, all_xml_files>>

\* save_credentials and the end of authenticate()
AuthSave ==
    /\ pc = "auth_save"
    /\ io' = io \cup {"cred_write"}
    /\ \E saved \in BOOLEAN :
       IF saved
       THEN /\ credFile' = [state |-> "valid",
                            expires_at |-> oauth.credentials.val.expires_at]
            /\ pc' = "client_new"
            /\ UNCHANGED result
       ELSE /\ result' = oauth_failed(Err("CredentialsReadError", "save failed"))
            /\ pc' = "exit"
            /\ UNCHANGED credFile
    /\ UNCHANGED <<inputVars, oauth, client, remoteVars, fsVars, exporter, now,
                   idx, start_row, values, all_xml_files>>

client_failed(e) == ErrC("GoogleSheetsError", "Failed to create Sheets client", e)

\* GoogleSheetsClient::new, lines 44-45
ClientNewLoad ==
    /\ pc = "client_new"
    /\ io' = io \cup (IF credFile.state = "absent" THEN {"cred_stat"}
                      ELSE {"cred_stat", "cred_read"})
    /\ LET loaded == load_credentials(credFile, now) IN
       IF IsOk(loaded)
       THEN /\ client' = Some(loaded.value)
            /\ pc' = "client_check"
            /\ UNCHANGED result
       ELSE /\ result' = client_failed(loaded)
            /\ pc' = "exit"
            /\ UNCHANGED client
    /\ oauth' = [oauth EXCEPT !.loaded = load_credentials(credFile, now)]
    /\ UNCHANGED <<inputVars, credFile, remoteVars, fsVars, exporter, now,
                   idx, start_row, values, all_xml_files>>

\* GoogleSheetsClient::new, lines 47-53: the second is_expired
ClientNewCheck ==
    /\ pc = "client_check"
    /\ IF is_expired(client.val, now)
       THEN /\ result' = client_failed(Err("TokenRefreshFailed",
                                           "Token expired. Please re-authenticate."))
            /\ pc' = "exit"
            /\ UNCHANGED idx
       ELSE /\ pc' = "loop" /\ idx' = 1
            /\ UNCHANGED result
    /\ UNCHANGED <<inputVars, authVars, remoteVars, fsVars, exporter, now,
                   start_row, io, values, all_xml_files>>

\* rows the server returns for A3:A1000: up to the last populated one
ReadResult(rows) ==
    LET inRange == {r \in rows : r >= ColumnAFirst /\ r <= ColumnALast} IN
    IF inRange = {} THEN 0 ELSE SetMax(inRange) - ColumnAFirst + 1

\* column A after a batch of rows is written with RAW values: a text fills
\* the cell, an empty text clears it, null leaves it as it is
WriteColumnA(rows, batch) ==
    LET filled == {batch[k].row_number : k \in {j \in DOMAIN batch :
                      batch[j].values[0].some /\ batch[j].values[0].val # ""}}
        cleared == {batch[k].row_number : k \in {j \in DOMAIN batch :
                      batch[j].values[0].some /\ batch[j].values[0].val = ""}}
    IN (rows \ cleared) \cup filled

RowNumbers(batch) == {batch[k].row_number : k \in DOMAIN batch}

Request(op, rec) == [op |-> op, rec |-> rec]
Event(op, rec, ev, rows) == [op |-> op, rec |-> rec, ev |-> ev, rows |-> rows]

export_failed(e) == ErrC("GoogleSheetsError", "Export failed", e)

\* a loop that goes on to its next round after an error
skip_failed(e) == [pc |-> "loop", result |-> Unset]

\* the "?" of lines 72-80: the error of the iteration ends export
propagate(e) == [pc |-> "exit", result |-> export_failed(e)]

\* a write that is started and not awaited
write_spawned == "loop"

\* the ".await?" of lines 75-76: the iteration resumes with the POST's answer
write_awaited == "write_wait"

\* one iteration of the export loop up to the first await: Runtime::new,
\* append_monster_data's validation, the GET of find_empty_row is sent
SheetsSendRead ==
    /\ pc = "loop" /\ idx <= Len(data)
    /\ \E runtime \in BOOLEAN :
       IF ~runtime
       THEN /\ result' = Err("GoogleSheetsError", "Failed to create async runtime")
            /\ pc' = "exit"
            /\ UNCHANGED <<inFlight, log, io>>
       ELSE LET valid == validate_spreadsheet_id_client(destination) IN
            IF IsErr(valid)
            THEN /\ result' = propagate(valid).result
                 /\ pc' = propagate(valid).pc
                 /\ UNCHANGED <<inFlight, log, io>>
            ELSE /\ inFlight' = inFlight \cup {Request("get", idx)}
                 /\ log' = Append(log, Event("get", idx, "sent", {}))
                 /\ io' = io \cup {"http_get"}
                 /\ pc' = "read_wait"
                 /\ UNCHANGED result
    /\ UNCHANGED <<inputVars, authVars, sheet, fsVars, exporter, now, idx,
                   start_row, values, all_xml_files>>

\* the answer to the GET: find_empty_row from line 106 on, transform_monster,
\* and write_rows_to_sheet up to its POST
SheetsReadAnswered ==
    /\ pc = "read_wait"
    /\ \/ \E failure \in {"Failed to get values", "API request failed with status",
                          "Failed to parse response"} :
          /\ result' = propagate(Err("RequestFailed", failure)).result
          /\ log' = Append(log, Event("get", idx, "failed", {}))
          /\ pc' = propagate(Err("RequestFailed", failure)).pc
          /\ UNCHANGED <<values, start_row, idx, io>>
       \/ LET n == ReadResult(sheet)
              found == find_empty_row_scan(n) IN
          /\ values' = n
          /\ IF IsErr(found)
             THEN /\ result' = propagate(found).result
                  /\ log' = Append(log, Event("get", idx, "answered", {}))
                  /\ pc' = propagate(found).pc
                  /\ UNCHANGED <<start_row, idx, io>>
             ELSE LET rows == transform_monster(Monster(idx), found.value) IN
                  /\ start_row' = found
                  /\ UNCHANGED result
                  /\ IF rows = <<>>
                     THEN /\ log' = Append(log, Event("get", idx, "answered", {}))
                          /\ idx' = idx + 1
                          /\ pc' = "loop"
                          /\ UNCHANGED io
                     ELSE /\ log' = log \o <<Event("get", idx, "answered", {}),
                                             Event("post", idx, "sent", RowNumbers(rows))>>
                          /\ io' = io \cup {"http_post"}
                          /\ pc' = write_awaited
                          /\ UNCHANGED idx
    /\ inFlight' = (inFlight \ {Request("get", idx)})
                   \cup (IF log'[Len(log')].op = "post"
                         THEN {Request("post", idx)} ELSE {})
    /\ UNCHANGED <<inputVars, authVars, sheet, fsVars, exporter, now,
                   all_xml_files>>

\* the answer to the POST: the rest of write_rows_to_sheet and of the iteration
SheetsWriteAnswered ==
    /\ pc = "write_wait"
    /\ inFlight' = inFlight \ {Request("post", idx)}
    /\ LET rows == transform_monster(Monster(idx), start_row.value) IN
       \/ \E failure \in {"Failed to write values", "API request failed with status"} :
          /\ result' = propagate(Err("RequestFailed", failure)).result
          /\ log' = Append(log, Event("post", idx, "failed", RowNumbers(rows)))
          /\ pc' = propagate(Err("RequestFailed", failure)).pc
          /\ UNCHANGED <<sheet, idx>>
       \/ /\ sheet' = WriteColumnA(sheet, rows)
          /\ log' = Append(log, Event("post", idx, "answered", RowNumbers(rows)))
          /\ idx' = idx + 1
          /\ pc' = "loop"
          /\ UNCHANGED result
    /\ UNCHANGED <<inputVars, authVars, fsVars, exporter, now, start_row, io,
                   values, all_xml_files>>

\* the loop is over: Ok(())
SheetsDone ==
    /\ pc = "loop" /\ idx > Len(data)
    /\ result' = Ok("unit")
    /\ pc' = "exit"
    /\ UNCHANGED <<inputVars, authVars, remoteVars, fsVars, exporter, now, idx,
                   start_row, io, values, all_xml_files>>

Next ==
    \/ export_results
    \/ JsonExport
    \/ UdonBegin \/ UdonGenerate \/ UdonZip
    \/ SheetsBegin \/ SheetsLoadCredentials
    \/ AuthLoadConfig \/ AuthOpenBrowser \/ AuthCallback \/ AuthExchange \/ AuthSave
    \/ ClientNewLoad \/ ClientNewCheck
    \/ SheetsSendRead \/ SheetsReadAnswered \/ SheetsWriteAnswered \/ SheetsDone
    \/ Tick

Spec == Init /\ [][Next]_vars

-----------------------------------------------------------------------------
(* Properties of the export command *)

IsSheets == exporter = "Google Sheets Exporter"
IsUdonarium == exporter = "Udonarium Exporter"
IsJson == exporter = "JSON Exporter"

\* the answer to the request sent at position i of the log, before position j
AnsweredBetween(i, j) ==
    \E k \in (i + 1)..(j - 1) :
        /\ log[k].op = log[i].op /\ log[k].rec = log[i].rec
        /\ log[k].ev \in {"answered", "failed"}

\* the requests the log shows sent and not answered
Outstanding ==
    { Request(log[i].op, log[i].rec) :
        i \in {j \in DOMAIN log : /\ log[j].ev = "sent"
                                  /\ ~AnsweredBetween(j, Len(log) + 1)} }

\* C1: a Sheets export talks to the server one record at a time, in list
\* order: the read of column A for a record is answered before the write for
\* that record is sent, no request is sent while an earlier one is unanswered
\* (so none for record k+1 before the write for record k is complete), and at
\* no time are two requests in flight.
C1_OneRequestAtATime ==
    /\ Cardinality(inFlight) <= 1
    /\ inFlight = Outstanding
    /\ \A i, j \in DOMAIN log : i < j => log[i].rec <= log[j].rec
    /\ \A j \in DOMAIN log :
        log[j].ev = "sent" =>
          /\ \A i \in 1..(j - 1) : log[i].ev = "sent" => AnsweredBetween(i, j)
          /\ log[j].op = "post" =>
               \E i \in 1..(j - 1) : log[i] = Event("get", log[j].rec, "answered", {})

\* the read for the second record is out, after the write for the first
C1_Witness ==
    /\ inFlight = {Request("get", 2)}
    /\ \E i \in DOMAIN log : log[i].op = "post" /\ log[i].rec = 1 /\ log[i].ev = "answered"

\* the rows of a batch that carry a creature's name in column A: every other
\* row from its first
NameRowsOf(rows) ==
    LET first == CHOOSE q \in rows : \A q2 \in rows : q <= q2
    IN {r \in rows : (r - first) % 2 = 0}

\* C2: when a record fails, the export returns that error and stops: nothing
\* is sent for a later record, no request is sent twice, and the rows written
\* for earlier records stay in the sheet. A Udonarium export that fails in its
\* loop has written no archive.
C2_FirstErrorAborts ==
    /\ \A i \in DOMAIN log :
         /\ log[i].rec <= idx
         /\ log[i].ev = "failed" =>
              /\ i = Len(log)
              /\ pc = "exit"
              /\ log[i].rec = idx
              /\ IsErr(result) /\ result.msg = "Export failed"
              /\ result.cause.kind = "RequestFailed"
              /\ inFlight = {}
         /\ log[i].ev = "sent" =>
              \A j \in DOMAIN log :
                (log[j].ev = "sent" /\ log[j].op = log[i].op /\ log[j].rec = log[i].rec)
                  => j = i
         /\ (log[i].op = "post" /\ log[i].ev = "answered") =>
              NameRowsOf(log[i].rows) \subseteq sheet
    /\ (IsSheets /\ IsErr(result)) => pc = "exit"
    /\ (IsUdonarium /\ IsErr(result)) =>
         /\ pc = "exit"
         /\ "file_create" \notin io => files = {}

\* the second record failed after the first was written
C2_Witness ==
    /\ pc = "exit" /\ IsErr(result) /\ idx = 2
    /\ \E i \in DOMAIN log : log[i].rec = 2 /\ log[i].ev = "failed"
    /\ \E i \in DOMAIN log : /\ log[i].op = "post" /\ log[i].rec = 1
                             /\ log[i].ev = "answered"
                             /\ log[i].rows \cap sheet # {}

\* C3: exporting an empty list. The Sheets and the Udonarium exporter return
\* an error and have done no I/O, whatever the destination: no directory and
\* no file is created, no credentials are read, no request is made. The JSON
\* exporter does not reject the list: it writes the text "[]" to the
\* destination and succeeds, and fails only when the destination's directory
\* is missing or the write itself fails.
C3_EmptyList ==
    data = <<>> =>
      /\ (IsSheets \/ IsUdonarium) =>
           /\ io = {} /\ files = {} /\ log = <<>> /\ inFlight = {}
           /\ pc \in {"export", "exit"}
           /\ pc = "exit" =>
                /\ IsErr(result)
                /\ \/ result = Err("GoogleSheetsError",
                         "Cannot export empty monster list. Please filter data first.")
                   \/ result = Err("GoogleSheetsError", "Cannot export empty monster list")
                   \/ IsSheets /\ result.kind = "InvalidDestination"
      /\ (IsJson /\ pc = "exit") =>
           /\ IsOk(result) <=> files = {<<destination, <<[t |-> "[]"]>> >>}
           /\ IsErr(result) =>
                /\ files = {}
                /\ result.kind \in {"InvalidDestination", "IoError"}
                /\ result.kind = "InvalidDestination" <=>
                     (Len(destination) > 1 /\ path_parent(destination).val \notin dirs)

\* the Udonarium exporter turned the empty list away, the directory of the
\* destination still missing
C3_Witness ==
    /\ data = <<>> /\ IsUdonarium /\ pc = "exit" /\ IsErr(result)
    /\ destination = <<"outdir", "out.zip">> /\ dirs = {}

SameLetter(c, a) ==
    c = a \/ \E k \in DOMAIN LowerChars : LowerChars[k] = a /\ UpperChars[k] = c
EqIgnoreCase(s, a) == Len(s) = Len(a) /\ \A i \in DOMAIN a : SameLetter(s[i], a[i])

\* the exporter the accepted spellings stand for, "none" for any other string
ExporterNamed(s) ==
    IF EqIgnoreCase(s, Chars_json) THEN "JSON Exporter"
    ELSE IF \E a \in {Chars_sheets, Chars_google_sheets, Chars_googlesheets} :
              EqIgnoreCase(s, a)
    THEN "Google Sheets Exporter"
    ELSE IF EqIgnoreCase(s, Chars_udonarium) THEN "Udonarium Exporter"
    ELSE "none"

\* C6: the format is parsed without regard to case and accepts exactly "json",
\* "sheets" | "google-sheets" | "googlesheets" and "udonarium"; any other
\* string is rejected with the UnsupportedFormat error and no exporter runs.
C6_AsStated ==
    pc # "cli" =>
      /\ exporter = ExporterNamed(formatArg)
      /\ ExporterNamed(formatArg) = "none" =>
           /\ pc = "exit" /\ io = {} /\ files = {} /\ log = <<>>
           /\ IsErr(result) /\ result.kind = "UnsupportedFormat"

\* what holds of the parsing: the accepted spellings are exactly those, and
\* any other string ends the command with a message, which is a plain string
\* and no ExportError, before an exporter is built
FormatRejectedWithMessage ==
    pc # "cli" =>
      /\ exporter = ExporterNamed(formatArg)
      /\ ExporterNamed(formatArg) = "none" =>
           /\ pc = "exit" /\ io = {} /\ files = {} /\ log = <<>>
           /\ result = Err("String", "Unknown export format")

\* stored credentials that are there and cannot be used at clock reading t
Unusable(file, t) ==
    \/ file.state \in {"unreadable", "unparseable"}
    \/ file.state = "valid" /\ file.expires_at <= t + ExpirySkew

OAuthOrApi == {"oauth_config", "browser", "listen", "http_token", "http_get", "http_post"}

\* C7: in a Sheets export, stored credentials that exist and are unusable
\* (expired under the 60 second rule, unreadable or unparseable) make the
\* export delete the credentials file and fail, with no OAuth flow started and
\* no request to the spreadsheet API; the OAuth flow starts from a missing
\* credentials file and from nothing else. The failed export leaves no
\* credentials file (the file system letting it remove the file), which is
\* the state the OAuth flow starts from.
C7_UnusableCredentials ==
    [][ /\ (pc = "load_credentials" /\ pc' # pc) =>
             /\ Unusable(credFile, now) =>
                  /\ "cred_remove" \in io'
                  /\ IF "cred_remove_failed" \in io'
                     THEN credFile' = credFile
                     ELSE credFile' = [state |-> "absent"]
                  /\ pc' = "exit"
                  /\ IsErr(result') /\ result'.msg = "Failed to load credentials"
                  /\ io' \cap OAuthOrApi = {}
                  /\ log' = <<>> /\ inFlight' = {} /\ sheet' = sheet
                  /\ oauth'.handled = 0
             /\ pc' = "auth_config" <=> credFile.state = "absent"
             /\ ~Unusable(credFile, now) => credFile' = credFile /\ result' = result
        /\ (pc' = "auth_config" /\ pc # "auth_config") => pc = "load_credentials"
        /\ (io' \cap OAuthOrApi # {} /\ io \cap OAuthOrApi = {}) =>
             \/ pc = "auth_config" /\ credFile.state = "absent"
             \/ pc = "loop"
      ]_vars

\* an export found expired credentials, removed them and failed
C7_Witness ==
    /\ pc = "exit" /\ IsErr(result) /\ result.msg = "Failed to load credentials"
    /\ IsErr(oauth.loaded) /\ oauth.loaded.kind = "TokenRefreshFailed"
    /\ credFile = [state |-> "absent"] /\ "cred_remove" \in io
    /\ "cred_remove_failed" \notin io
    /\ io \cap OAuthOrApi = {}

\* a step that returns from load_credentials
LoadStep == pc \in {"load_credentials", "client_new"} /\ pc' # pc

\* C8 as stated: a credential is expired exactly when expires_at <= now + 60;
\* load_credentials fails with MissingCredentials when the file is absent,
\* with TokenRefreshFailed when it is present and expired, and returns the
\* credentials in every other case.
C8_AsStated ==
    [][ LoadStep =>
          LET r == oauth'.loaded
              expired == credFile.state = "valid"
                         /\ credFile.expires_at <= now + ExpirySkew IN
          /\ credFile.state = "absent" =>
               IsErr(r) /\ r.kind = "MissingCredentials"
          /\ (credFile.state # "absent" /\ expired) =>
               IsErr(r) /\ r.kind = "TokenRefreshFailed"
          /\ (credFile.state # "absent" /\ ~expired) => IsOk(r)
      ]_vars

\* C8: a credential is expired exactly when expires_at <= now + 60, the
\* boundary included. load_credentials fails with MissingCredentials when the
\* file is absent, with the read or the parse error when the file is there
\* and cannot be read or parsed, with TokenRefreshFailed when its credentials
\* are expired, and returns the credentials when they are not expired.
\* GoogleSheetsClient::new fails when load_credentials fails and when the
\* credentials it loaded are expired at its own reading of the clock.
C8_LoadCredentials ==
    [][ /\ LoadStep =>
             LET r == oauth'.loaded IN
             /\ credFile.state = "absent" =>
                  IsErr(r) /\ r.kind = "MissingCredentials"
             /\ credFile.state = "unreadable" =>
                  IsErr(r) /\ r.kind = "CredentialsReadError"
             /\ credFile.state = "unparseable" =>
                  IsErr(r) /\ r.kind = "CredentialsParsError"
             /\ credFile.state = "valid" =>
                  IF credFile.expires_at <= now + ExpirySkew
                  THEN IsErr(r) /\ r.kind = "TokenRefreshFailed"
                  ELSE r = Ok([expires_at |-> credFile.expires_at])
             /\ pc = "client_new" =>
                  IF IsErr(r)
                  THEN /\ pc' = "exit" /\ IsErr(result')
                       /\ result'.msg = "Failed to create Sheets client"
                       /\ result'.cause = r
                  ELSE pc' = "client_check" /\ client' = Some(r.value)
        /\ (pc = "client_check" /\ pc' # pc) =>
             IF client.val.expires_at <= now + ExpirySkew
             THEN /\ pc' = "exit" /\ IsErr(result')
                  /\ result'.msg = "Failed to create Sheets client"
                  /\ result'.cause.kind = "TokenRefreshFailed"
             ELSE pc' = "loop" /\ result' = result
      ]_vars

\* credentials that were loaded, and 60 seconds from their expiry when the
\* client looked at them, were refused
C8_Witness ==
    /\ pc = "exit" /\ client.some /\ client.val.expires_at = now + ExpirySkew
    /\ IsOk(oauth.loaded)
    /\ IsErr(result) /\ result.msg = "Failed to create Sheets client"

HasParam(pairs, key) == \E i \in DOMAIN pairs : pairs[i][1] = key

\* the value a request carries for a key: that of the last pair with the key
LastParam(pairs, key, v) ==
    \E i \in DOMAIN pairs :
        /\ pairs[i] = <<key, v>>
        /\ \A j \in DOMAIN pairs : j > i => pairs[j][1] # key

\* C9: the callback listener handles one request and no more. It returns an
\* authorization code only when the request has no error parameter, its state
\* parameter is the nonce of this flow and it has a code parameter. A provider
\* error, a state that is not the nonce, and a missing code each fail with
\* AuthenticationFailed, with three different messages; no code is returned
\* for a request whose state is not the nonce.
C9_CallbackListener ==
    /\ oauth.handled <= 1
    /\ oauth.request.some => oauth.handled = 1
    /\ pc \in {"auth_exchange", "auth_save"} =>
         oauth.handled = 1 /\ IsOk(oauth.callback)
    /\ oauth.request.some =>
         LET rq == oauth.request.val
             cb == oauth.callback IN
         /\ IsOk(cb) <=> pc = "auth_exchange"
         /\ IsErr(cb) => pc = "exit" /\ IsErr(result) /\ result.cause = cb
         /\ IF rq = [unparseable |-> TRUE] THEN IsErr(cb)
            ELSE LET p == rq.pairs IN
                 /\ IsOk(cb) =>
                      /\ ~HasParam(p, "error")
                      /\ LastParam(p, "state", oauth.nonce)
                      /\ LastParam(p, "code", cb.value)
                 /\ HasParam(p, "error") =>
                      /\ IsErr(cb) /\ cb.kind = "AuthenticationFailed"
                      /\ cb.msg \notin {"State mismatch", "Missing authorization code"}
                 /\ (/\ ~HasParam(p, "error") /\ HasParam(p, "state")
                     /\ ~LastParam(p, "state", oauth.nonce)) =>
                      cb = Err("AuthenticationFailed", "State mismatch")
                 /\ (/\ ~HasParam(p, "error") /\ LastParam(p, "state", oauth.nonce)
                     /\ ~HasParam(p, "code")) =>
                      cb = Err("AuthenticationFailed", "Missing authorization code")

\* a request with the code and the state of another flow was refused
C9_Witness ==
    /\ pc = "exit" /\ oauth.handled = 1 /\ oauth.request.some
    /\ oauth.nonce = "nonce-a"
    /\ oauth.request.val = [pairs |-> << <<"code", "4/0AX4">>, <<"state", "nonce-b">> >>]
    /\ oauth.callback = Err("AuthenticationFailed", "State mismatch")

RECURSIVE PartsBefore(_)
\* the number of parts of the records before record m
PartsBefore(m) == IF m <= 1 THEN 0 ELSE PartsBefore(m - 1) + Len(data[m - 1].part)

\* C10: a Udonarium export of a non-empty list that succeeds has written one
\* archive, whose entries are one XML document for each part of each record,
\* the records in list order and the parts of a record in their order; the
\* entry of part i is named by the file name PartNamer gives part i, with
\* ".xml" added, and holds the XML generated for part i, so that the archive
\* has as many entries as the records have parts.
C10_ArchiveEntries ==
    (IsUdonarium /\ pc = "exit" /\ IsOk(result)) =>
      /\ data # <<>>
      /\ Cardinality(files) = 1 /\ HasFile(files, destination)
      /\ LET archive == FileAt(files, destination)[2] IN
         /\ archive.finished
         /\ Len(archive.entries) = PartsBefore(Len(data) + 1)
         /\ \A m \in DOMAIN data : \A i \in DOMAIN data[m].part :
              LET names == generate_names(data[m].part, data[m].name)
                  shown == [k \in DOMAIN names |-> names[k].display_name]
                  entry == archive.entries[PartsBefore(m) + i]
              IN /\ entry[1] = names[i].filename \o ".xml"
                 /\ entry[2] = generate_xml(transform(data[m], shown), i - 1).value

\* the three parts of a Treant and the one of a Goblin are in the archive
C10_Witness ==
    /\ IsUdonarium /\ pc = "exit" /\ IsOk(result)
    /\ data = <<Treant, Goblin>>
    /\ Len(FileAt(files, destination)[2].entries) = 4

-----------------------------------------------------------------------------
(* Calls of the pure functions on their own: the argument is in data (a     *)
(* record), values (a number) or start_row, the value returned in result    *)

\* what the variables a call does not touch hold
Idle ==
    /\ formatArg = <<>> /\ exporter = "none" /\ destination = ""
    /\ homeSet = TRUE /\ credFile = [state |-> "absent"]
    /\ now = 0 /\ oauth = NoFlow /\ client = NoneV /\ idx = 0
    /\ sheet = {} /\ inFlight = {} /\ log = <<>> /\ io = {} /\ dirs = {}
    /\ files = {} /\ all_xml_files = <<>>

idleVars == <<formatArg, exporter, destination, homeSet, credFile, now, oauth,
              client, idx, sheet, inFlight, log, io, dirs, files, all_xml_files>>

-----------------------------------------------------------------------------
(* PartNamer on every short list of parts *)

\* parts of a record
MaxParts == 3

PartNames == {"", "root", "trunk"}
CoreFlags == {NoneV, Some(TRUE), Some(FALSE)}
NamedParts ==
    { MkPart(n, c, Some(10), 0, Some(9), Some(9), Some(1), 1, "") :
        n \in PartNames, c \in CoreFlags }
PartLists == SeqsUpTo(NamedParts, MaxParts)

InitPartNamer ==
    /\ pc = "call"
    /\ \E parts \in PartLists : data = <<[Treant EXCEPT !.part = parts]>>
    /\ result = Unset /\ values = 0 /\ start_row = Unset
    /\ Idle

\* PartNamer::new(&monster.part).generate_names(&monster.part, &monster.name)
CallGenerateNames ==
    /\ pc = "call"
    /\ result' = Ok(generate_names(Monster(1).part, Monster(1).name))
    /\ pc' = "returned"
    /\ UNCHANGED <<idleVars, data, values, start_row>>

NextPartNamer == CallGenerateNames

SpecPartNamer == InitPartNamer /\ [][NextPartNamer]_vars

\* the number of parts before part i that have its name
EarlierSameName(parts, i) ==
    Cardinality({j \in DOMAIN parts : j < i /\ parts[j].name = parts[i].name})

\* C11: PartNamer names each part, in input order, by this table: empty name
\* and core: file and display name are the creature's name; empty name and
\* not core: both are creature_k; a name no other part has: file
\* creature_name, display creature\n(name); a name more than one part has:
\* file creature_name_k, display creature\n(name); k is the number of earlier
\* parts with the same name, core or not.
C11_NamingTable ==
    pc = "returned" =>
      LET parts == Monster(1).part
          creature == Monster(1).name
          names == result.value IN
      /\ DOMAIN names = DOMAIN parts
      /\ \A i \in DOMAIN parts :
           LET p == parts[i]
               k == ToString(EarlierSameName(parts, i))
               core == p.core = Some(TRUE)
               shared == \E j \in DOMAIN parts : j # i /\ parts[j].name = p.name
               shown == creature \o "\n(" \o p.name \o ")" IN
           /\ (p.name = "" /\ core) =>
                names[i] = [filename |-> creature, display_name |-> creature]
           /\ (p.name = "" /\ ~core) =>
                names[i] = [filename |-> creature \o "_" \o k,
                            display_name |-> creature \o "_" \o k]
           /\ (p.name # "" /\ ~shared) =>
                names[i] = [filename |-> creature \o "_" \o p.name,
                            display_name |-> shown]
           /\ (p.name # "" /\ shared) =>
                names[i] = [filename |-> creature \o "_" \o p.name \o "_" \o k,
                            display_name |-> shown]

\* a part without a name that is not core, and two roots
C11_Witness ==
    /\ pc = "returned" /\ Len(Monster(1).part) = 3
    /\ result.value[2].filename = "Treant_root_0"
    /\ result.value[3].filename = "Treant_root_1"
    /\ result.value[1].filename = "Treant_0"

-----------------------------------------------------------------------------
(* The Sheets DataTransformer on its own *)

\* parts of a record handed to transform_monster
MaxSheetParts == 3

\* parts that differ in name, core flag, and in what they have of HP, MP,
\* armor and abilities of their own
SheetParts ==
    { MkPart(n, c, Some(30), 20, Some(14), Some(5), Some(6), 4, "grab") :
        n \in {"", "root"}, c \in CoreFlags }
    \cup { MkPart(n, c, NoneV, -1, NoneV, NoneV, NoneV, 1, "") :
        n \in {"", "root"}, c \in CoreFlags }
SheetPartLists == SeqsUpTo(SheetParts, MaxSheetParts)

\* rows transform_monster is called with in the model of the export
StartRows == {ColumnAFirst, ColumnALast - 1}

InitSheetRows ==
    /\ pc = "call"
    /\ \E base \in {Goblin, Treant, Swarm}, parts \in SheetPartLists :
          data = <<[base EXCEPT !.part = parts]>>
    /\ \E start \in StartRows : start_row = Ok(start)
    /\ result = Unset /\ values = 0
    /\ Idle

\* DataTransformer::transform_monster(monster, start_row)
CallTransformMonster ==
    /\ pc = "call"
    /\ result' = Ok(transform_monster(Monster(1), start_row.value))
    /\ pc' = "returned"
    /\ UNCHANGED <<idleVars, data, values, start_row>>

NextSheetRows == CallTransformMonster

SpecSheetRows == InitSheetRows /\ [][NextSheetRows]_vars

\* the columns the layout assigns in an odd and in an even row
OddLayout == {0, 11, 15, 17, 19, 21, 23, 25, 27, 29, 31, 33, 35, 38, 48}
EvenLayout == {38, 48}

\* the odd and the even row of part i (0-based) in a list of rows
OddRow(rows, i) == rows[2 * i + 1]
EvenRow(rows, i) == rows[2 * i + 2]

\* C12: transform_monster(monster, start) returns 2n rows for n parts, in part
\* order; the rows of part i (0-based) are numbered start + 2i and
\* start + 2i + 1; each row has 54 cells, and every cell the column layout
\* does not assign is absent.
C12_RowsOfParts ==
    pc = "returned" =>
      LET rows == result.value
          parts == Monster(1).part
          start == start_row.value IN
      /\ Len(rows) = 2 * Len(parts)
      /\ \A i \in 0..(Len(parts) - 1) :
           /\ OddRow(rows, i).row_number = start + 2 * i
           /\ EvenRow(rows, i).row_number = start + 2 * i + 1
           /\ OddRow(rows, i).values[17] = Some(ToString(parts[i + 1].armor))
           /\ OddRow(rows, i).values[11].some = parts[i + 1].hp.some
           /\ EvenRow(rows, i).values[38].some = (parts[i + 1].special_abilities # "")
           /\ DOMAIN OddRow(rows, i).values = 0..53
           /\ DOMAIN EvenRow(rows, i).values = 0..53
           /\ \A c \in (0..53) \ OddLayout : OddRow(rows, i).values[c] = NoneV
           /\ \A c \in (0..53) \ EvenLayout : EvenRow(rows, i).values[c] = NoneV

\* three parts, written from row 999 on
C12_Witness ==
    /\ pc = "returned" /\ Len(Monster(1).part) = 3 /\ Len(result.value) = 6
    /\ result.value[5].row_number = ColumnALast + 3
    /\ result.value[6].row_number = ColumnALast + 4

\* C13: cell 0 of the odd row of a part is the creature's name, or the name,
\* a newline and the part's name in parentheses when the part has a name; it
\* begins with the core marker if and only if the part's core flag is true (an
\* absent flag is false), at whatever position the part is. Cell 0 of an even
\* row is absent.
C13_NameCell ==
    pc = "returned" =>
      LET rows == result.value
          parts == Monster(1).part
          creature == Monster(1).name IN
      \A i \in 0..(Len(parts) - 1) :
         LET p == parts[i + 1]
             text == IF p.name = "" THEN creature
                     ELSE creature \o "\n(" \o p.name \o ")" IN
         /\ p.core = Some(TRUE) => OddRow(rows, i).values[0] = Some("<star>" \o text)
         /\ p.core # Some(TRUE) => OddRow(rows, i).values[0] = Some(text)
         /\ EvenRow(rows, i).values[0] = NoneV

\* a second part that is core and has a name, after a first that is not core
C13_Witness ==
    /\ pc = "returned" /\ Len(Monster(1).part) >= 2
    /\ Monster(1).part[1].core = NoneV
    /\ result.value[1].values[0] = Some("Goblin")
    /\ result.value[3].values[0] = Some("<star>Goblin\n(root)")

\* C20: the cells of the creature are written with the part at index 0 only,
\* whatever its core flag: odd row cells 19, 21, 23 hold initiative, life and
\* mental resistance for part 0 and "-" for every other part; odd row cell 48
\* holds fame/weakness_value for part 0 and "-/-" for the others; even row
\* cell 48 holds the transformed weakness for part 0 ("-" when the weakness is
\* empty) and "-" for the others.
C20_CreatureCells ==
    pc = "returned" =>
      LET rows == result.value
          m == Monster(1) IN
      \A i \in 0..(Len(m.part) - 1) :
         LET odd == OddRow(rows, i).values
             even == EvenRow(rows, i).values IN
         IF i = 0
         THEN /\ odd[19] = Some(ToString(m.initiative))
              /\ odd[21] = Some(ToString(m.life_resistance))
              /\ odd[23] = Some(ToString(m.mental_resistance))
              /\ odd[48] = Some(ToString(m.fame) \o "/" \o ToString(m.weakness_value))
              /\ even[48] = IF m.weakness = <<>> THEN Some("-")
                            ELSE Some(transform_weakness(m.weakness))
         ELSE /\ odd[19] = Some("-") /\ odd[21] = Some("-") /\ odd[23] = Some("-")
              /\ odd[48] = Some("-/-")
              /\ even[48] = Some("-")

\* a Treant whose first part is not core and whose second part is
C20_Witness ==
    /\ pc = "returned" /\ Len(Monster(1).part) = 2
    /\ Monster(1).part[1].core = Some(FALSE) /\ Monster(1).part[2].core = Some(TRUE)
    /\ result.value[1].values[48] = Some("14/17")
    /\ result.value[2].values[48] = Some(<<"<honoo>","<da>","<me>","+","3">>)
    /\ result.value[3].values[48] = Some("-/-")
    /\ result.value[4].values[48] = Some("-")

-----------------------------------------------------------------------------
(* The weakness transforms on their own *)

\* words of a weakness text
MaxWords == 3

\* the three patterns, pieces of them that a deletion can join, and other
\* characters
WeaknessWords ==
    { Pat_energy, Pat_damage, Pat_attribute,
      <<"<da>">>, <<"<me>","<long>","<ji>">>, <<"<zoku>">>, <<"<sei>">>,
      <<"<honoo>">>, <<"<jun>">>, <<"+","3">> }

RECURSIVE Concat(_)
Concat(ws) == IF ws = <<>> THEN <<>> ELSE Head(ws) \o Concat(Tail(ws))

Text_fire == <<"<honoo>","<zoku>","<sei>","<da>","<me>","<long>","<ji>","+","3">>
Text_pure_energy ==
    <<"<jun>","<e>","<ne>","<ru>","<gi>","<long>","<zoku>","<sei>",
      "<da>","<me>","<long>","<ji>","+","2">>

WeaknessTexts ==
    { Concat(ws) : ws \in SeqsUpTo(WeaknessWords, MaxWords) }
    \cup {Text_fire, Text_pure_energy}

InitWeakness ==
    /\ pc = "call"
    /\ \E w \in WeaknessTexts : data = <<[Goblin EXCEPT !.weakness = w]>>
    /\ result = Unset /\ values = 0 /\ start_row = Unset
    /\ Idle

\* the Udonarium converter on the text
CallTransformWeakness ==
    /\ pc = "call"
    /\ result' = Ok([udonarium |-> transform_weakness(Monster(1).weakness)])
    /\ pc' = "converted"
    /\ UNCHANGED <<idleVars, data, values, start_row>>

\* the Sheets converter on the same text
CallSheetsTransformWeakness ==
    /\ pc = "converted"
    /\ result' = Ok([udonarium |-> result.value.udonarium,
                     sheets |-> sheets_transform_weakness(Monster(1).weakness)])
    /\ pc' = "returned"
    /\ UNCHANGED <<idleVars, data, values, start_row>>

NextWeakness == CallTransformWeakness \/ CallSheetsTransformWeakness

SpecWeakness == InitWeakness /\ [][NextWeakness]_vars

\* where pat occurs in s
Occurrences(s, pat) ==
    {i \in 1..(Len(s) - Len(pat) + 1) : SubSeq(s, i, i + Len(pat) - 1) = pat}

\* out is s with every occurrence of pat replaced by new, for a pattern no two
\* occurrences of which overlap: what is outside the occurrences is kept, in
\* place of each occurrence stands new
IsReplacedAll(s, pat, new, out) ==
    LET occ == Occurrences(s, pat)
        shrink == Len(pat) - Len(new)
        before(i) == Cardinality({o \in occ : o < i})
        covered(i) == \E o \in occ : o <= i /\ i < o + Len(pat) IN
    /\ Len(out) = Len(s) - Cardinality(occ) * shrink
    /\ \A i \in 1..Len(s) : ~covered(i) => out[i - before(i) * shrink] = s[i]
    /\ \A o \in occ :
         SubSeq(out, o - before(o) * shrink, o - before(o) * shrink + Len(new) - 1) = new

\* C14: the weakness transform replaces every "energy" by "E", then in the
\* result every "damage" by its first two characters, then in that result
\* deletes every "attribute"; the two examples come out as stated; the Sheets
\* and the Udonarium converter give the same text for every input.
C14_WeaknessTransform ==
    /\ pc \in {"converted", "returned"} =>
         LET w == Monster(1).weakness
             afterEnergy == replace(w, Pat_energy, <<"E">>)
             afterDamage == replace(afterEnergy, Pat_damage, <<"<da>","<me>">>) IN
         /\ IsReplacedAll(w, Pat_energy, <<"E">>, afterEnergy)
         /\ IsReplacedAll(afterEnergy, Pat_damage, <<"<da>","<me>">>, afterDamage)
         /\ IsReplacedAll(afterDamage, Pat_attribute, <<>>, result.value.udonarium)
         /\ w = Text_fire =>
              result.value.udonarium = <<"<honoo>","<da>","<me>","+","3">>
         /\ w = Text_pure_energy =>
              result.value.udonarium = <<"<jun>","E","<da>","<me>","+","2">>
    /\ pc = "returned" => result.value.sheets = result.value.udonarium

\* a text in which deleting the attribute joins the characters of "damage",
\* which stay
C14_Witness ==
    /\ pc = "returned"
    /\ Monster(1).weakness = <<"<da>","<zoku>","<sei>","<me>","<long>","<ji>">>
    /\ result.value.sheets = Pat_damage

-----------------------------------------------------------------------------
(* adjust_value on its own *)

\* how far from 0 and from the ends of i32 the arguments go
AdjustSpan == 40

AdjustInputs ==
    (I32Min..(I32Min + AdjustSpan)) \cup ((-AdjustSpan)..AdjustSpan)
    \cup {I32Max - k : k \in 0..AdjustSpan}

InitAdjust ==
    /\ pc = "call"
    /\ values \in AdjustInputs
    /\ data = <<>> /\ result = Unset /\ start_row = Unset
    /\ Idle

\* DataTransformer::adjust_value(value): a build with overflow checks panics
\* where value - 7 overflows, a build without them wraps
CallAdjustValue ==
    /\ pc = "call"
    /\ \/ result' = Ok(adjust_value(values))
       \/ /\ sub_overflows(values, 7)
          /\ result' = Err("panic", "attempt to subtract with overflow")
    /\ pc' = "returned"
    /\ UNCHANGED <<idleVars, data, values, start_row>>

NextAdjust == CallAdjustValue

SpecAdjust == InitAdjust /\ [][NextAdjust]_vars

\* max(v - 7, 0)
AdjustedOf(v) == IF v <= 7 THEN 0 ELSE v - 7

\* C15, the function: adjust_value(v) = max(v - 7, 0) for every integer v.
C15_AsStated ==
    pc = "returned" => result = Ok(AdjustedOf(values))

\* the entries of the archive: hit rate, dodge, life and mental resistance
\* are adjusted, damage and armor are not
XmlStatsAdjusted ==
    (IsUdonarium /\ pc \in {"udon_loop", "exit"}) =>
      \A m \in DOMAIN data : \A i \in DOMAIN data[m].part :
        (m < idx /\ idx > 0) =>
          LET p == data[m].part[i]
              slots == all_xml_files[PartsBefore(m) + i][2].slots IN
          /\ slots.hit_rate = AdjustedOf(unwrap_or(p.hit_rate, 0))
          /\ slots.dodge = AdjustedOf(unwrap_or(p.dodge, 0))
          /\ slots.life_resistance = AdjustedOf(data[m].life_resistance)
          /\ slots.mental_resistance = AdjustedOf(data[m].mental_resistance)
          /\ slots.damage = unwrap_or(p.damage, 0)
          /\ slots.armor = p.armor

-----------------------------------------------------------------------------
(* GoogleSheetsClient::index_to_column on its own *)

\* the largest column index
MaxIndex == 800

RECURSIVE column_letters(_)
\* the loop of index_to_column from a value of num on: the letter of
\* (num - 1) % 26 goes in front of what is there, num becomes (num - 1) / 26
column_letters(num) ==
    IF num > 0
    THEN column_letters((num - 1) \div 26) \o <<UpperChars[((num - 1) % 26) + 1]>>
    ELSE <<>>

\* a conversion that starts the loop at the index itself
index_to_column_from_index(index) == column_letters(index)

\* GoogleSheetsClient::index_to_column
index_to_column(index) == column_letters(index + 1)

InitColumn ==
    /\ pc = "call"
    /\ values \in 0..MaxIndex
    /\ data = <<>> /\ result = Unset /\ start_row = Unset
    /\ Idle

CallIndexToColumn ==
    /\ pc = "call"
    /\ result' = Ok(index_to_column(values))
    /\ pc' = "returned"
    /\ UNCHANGED <<idleVars, data, values, start_row>>

NextColumn == CallIndexToColumn

SpecColumn == InitColumn /\ [][NextColumn]_vars

\* the digit 1..26 a letter stands for
LetterDigit(c) == CHOOSE k \in DOMAIN UpperChars : UpperChars[k] = c

RECURSIVE BijectiveValue(_)
\* the number a string of letters writes in base 26 with the digits 1..26
BijectiveValue(s) ==
    IF s = <<>> THEN 0
    ELSE 26 * BijectiveValue(SubSeq(s, 1, Len(s) - 1)) + LetterDigit(s[Len(s)])

\* C16: index_to_column writes index + 1 in base 26 with the digits A..Z for
\* 1..26 and no zero: 0 is A, 1 B, 25 Z, 26 AA, 27 AB, 51 AZ, 52 BA, 701 ZZ,
\* 702 AAA; the result is a non-empty string of letters A..Z for every index,
\* and the index can be read back from it, so two indices never share one.
C16_BijectiveBase26 ==
    pc = "returned" =>
      LET s == result.value IN
      /\ IsOk(result)
      /\ Len(s) >= 1
      /\ \A i \in DOMAIN s : \E k \in DOMAIN UpperChars : UpperChars[k] = s[i]
      /\ BijectiveValue(s) = values + 1
      /\ values = 0 => s = <<"A">>
      /\ values = 1 => s = <<"B">>
      /\ values = 25 => s = <<"Z">>
      /\ values = 26 => s = <<"A","A">>
      /\ values = 27 => s = <<"A","B">>
      /\ values = 51 => s = <<"A","Z">>
      /\ values = 52 => s = <<"B","A">>
      /\ values = 701 => s = <<"Z","Z">>
      /\ values = 702 => s = <<"A","A","A">>

\* the first column of three letters
C16_Witness == pc = "returned" /\ values = 702 /\ result.value = <<"A","A","A">>

-----------------------------------------------------------------------------
(* palette.rs: the chat palette of a spell *)

\* A text is the sequence of its characters; a character outside ASCII is
\* written as one token, such as "<ma>".

\* serde_json::Value: a key that is absent, a string, an integer, a boolean or
\* an object
JNone == [t |-> "absent", v |-> 0]
JStr(s) == [t |-> "str", v |-> s]
JInt(n) == [t |-> "int", v |-> n]
JBool(b) == [t |-> "bool", v |-> b]
JObj(o) == [t |-> "obj", v |-> o]

as_str(j) == IF j.t = "str" THEN Some(j.v) ELSE NoneV
as_i64(j) == IF j.t = "int" THEN Some(j.v) ELSE NoneV
as_bool(j) == IF j.t = "bool" THEN Some(j.v) ELSE NoneV
as_object(j) == IF j.t = "obj" THEN Some(j.v) ELSE NoneV

\* Err(ERR_....to_string()): the message is written by the name of its constant
PaletteErr(msg) == Err("String", msg)

RECURSIVE nat_to_string(_)
nat_to_string(n) ==
    IF n < 10 THEN <<ToString(n)>>
    ELSE nat_to_string(n \div 10) \o <<ToString(n % 10)>>

\* i64::to_string
i64_to_string(n) == IF n < 0 THEN <<"-">> \o nat_to_string(-n) ELSE nat_to_string(n)

Suffix_mahou == <<"<ma>", "<hou>">>
Kind_kobetsu == <<"<ko>", "<betsu>">>
Kind_eria == <<"<e>", "<ri>", "<a>">>

format_magic_category(school) ==
    IF Len(school) = 2 THEN school \o Suffix_mahou ELSE school

\* an extraction that tries special, then value+, then value
format_mp_special_first(spell) ==
    LET mp == as_object(spell.extra.MP) IN
    IF ~mp.some THEN PaletteErr("ERR_MISSING_MP")
    ELSE IF as_str(mp.val.special).some
         THEN Ok(as_str(mp.val.special).val)
    ELSE IF as_i64(mp.val.value_plus).some
         THEN Ok(i64_to_string(as_i64(mp.val.value_plus).val) \o <<"<nami>">>)
    ELSE IF as_i64(mp.val.value).some
         THEN Ok(i64_to_string(as_i64(mp.val.value).val))
    ELSE PaletteErr("ERR_MISSING_MP")

format_mp(spell) ==
    LET mp == as_object(spell.extra.MP) IN
    IF ~mp.some THEN PaletteErr("ERR_MISSING_MP")
    ELSE IF as_i64(mp.val.value).some
         THEN Ok(i64_to_string(as_i64(mp.val.value).val))
    ELSE IF as_i64(mp.val.value_plus).some
         THEN Ok(i64_to_string(as_i64(mp.val.value_plus).val) \o <<"<nami>">>)
    ELSE IF as_str(mp.val.special).some
         THEN Ok(as_str(mp.val.special).val)
    ELSE PaletteErr("ERR_MISSING_MP")

\* the arm of format_target for an area: value(<hankei>radius m suffix)
format_target_area(target_obj) ==
    LET area == as_object(target_obj.eria) IN
    IF ~area.some THEN PaletteErr("ERR_MISSING_TARGET")
    ELSE
      LET value == as_str(area.val.value)
          r == area.val.hankei_m
          s == area.val.matsubi
      IN
      IF ~value.some THEN PaletteErr("ERR_MISSING_TARGET")
      ELSE IF ~(as_i64(r).some \/ as_str(r).some) THEN PaletteErr("ERR_MISSING_TARGET")
      ELSE IF ~(as_str(s).some \/ as_i64(s).some) THEN PaletteErr("ERR_MISSING_TARGET")
      ELSE
        LET radius_m == IF as_i64(r).some THEN i64_to_string(as_i64(r).val)
                        ELSE as_str(r).val
            suffix == IF as_str(s).some THEN as_str(s).val
                      ELSE i64_to_string(as_i64(s).val)
        IN Ok(value.val \o <<"(", "<han>", "<kei>">> \o radius_m \o <<"m">>
              \o suffix \o <<")">>)

format_target(spell) ==
    LET target == as_object(spell.extra.taishou) IN
    IF ~target.some THEN PaletteErr("ERR_MISSING_TARGET")
    ELSE
      LET kind == as_str(target.val.kind) IN
      IF ~kind.some THEN PaletteErr("ERR_INVALID_TARGET_KIND")
      ELSE IF kind.val = Kind_kobetsu THEN
        LET individual == as_str(target.val.kobetsu) IN
        IF individual.some THEN Ok(individual.val)
        ELSE PaletteErr("ERR_MISSING_TARGET")
      ELSE IF kind.val = Kind_eria THEN format_target_area(target.val)
      ELSE PaletteErr("ERR_INVALID_TARGET_KIND")

\* one key of format_range: a string as it is, an integer in decimal
range_of(j) ==
    IF as_str(j).some THEN Some(as_str(j).val)
    ELSE IF as_i64(j).some THEN Some(i64_to_string(as_i64(j).val))
    ELSE NoneV

format_range(spell) ==
    IF range_of(spell.extra.shatei).some THEN Ok(range_of(spell.extra.shatei).val)
    ELSE IF range_of(spell.extra.shatei_m).some
         THEN Ok(range_of(spell.extra.shatei_m).val)
    ELSE PaletteErr("ERR_MISSING_RANGE")

format_duration(spell) ==
    LET time == as_object(spell.extra.jikan) IN
    IF ~time.some THEN PaletteErr("ERR_MISSING_TIME")
    ELSE IF as_str(time.val.value).some THEN Ok(as_str(time.val.value).val)
    ELSE IF as_i64(time.val.value).some THEN
      LET unit == IF as_str(time.val.unit).some THEN as_str(time.val.unit).val
                  ELSE <<>>
      IN Ok(i64_to_string(as_i64(time.val.value).val) \o unit)
    ELSE PaletteErr("ERR_INVALID_TIME_VALUE")

\* the part both palettes share:
\* {name} / MP:{mp} / <taishou>:{target} / <shatei>:{range} / <jikan>:{duration} / {effect}
palette_line(name, mp, target, range, duration, effect) ==
    name \o <<" ", "/", " ", "M", "P", ":">> \o mp
         \o <<" ", "/", " ", "<tai>", "<shou>", ":">> \o target
         \o <<" ", "/", " ", "<sha>", "<tei>", ":">> \o range
         \o <<" ", "/", " ", "<ji>", "<kan>", ":">> \o duration
         \o <<" ", "/", " ">> \o effect

Placeholder == <<"{", "<kou>", "<shi>", "<shuu>", "<sei>", "}">>

\* 2d+{magic_category}+{<koushi shuusei>}, two spaces
roll_prefix(magic_category) ==
    <<"2", "d", "+", "{">> \o magic_category \o <<"}", "+">> \o Placeholder
        \o <<" ", " ">>

\* the fields both generators extract, in the order of the ? operators; the
\* first failure is the one returned
palette_fields(spell) ==
    LET mp == format_mp(spell)
        target == format_target(spell)
        duration == format_duration(spell)
        range == format_range(spell)
        effect == as_str(spell.extra.kouka)
    IN
    IF IsErr(mp) THEN mp
    ELSE IF IsErr(target) THEN target
    ELSE IF IsErr(duration) THEN duration
    ELSE IF IsErr(range) THEN range
    ELSE IF ~effect.some THEN PaletteErr("ERR_MISSING_EFFECT")
    ELSE Ok(palette_line(spell.name, mp.value, target.value, range.value,
                         duration.value, effect.val))

generate_regular_palette(spell) ==
    IF spell.school = <<>> THEN PaletteErr("ERR_MISSING_SCHOOL")
    ELSE IF IsErr(palette_fields(spell)) THEN palette_fields(spell)
    ELSE Ok(roll_prefix(format_magic_category(spell.school))
            \o palette_fields(spell).value)

generate_support_palette_rolled(spell) == generate_regular_palette(spell)

generate_support_palette(spell) == palette_fields(spell)

\* an entry point that takes any flag that is present for true
generate_spell_palette_flag_present(spell) ==
    IF spell.name = <<>> THEN PaletteErr("ERR_MISSING_NAME")
    ELSE IF spell.extra.hojo.t # "absent" THEN generate_support_palette(spell)
    ELSE generate_regular_palette(spell)

generate_spell_palette(spell) ==
    IF spell.name = <<>> THEN PaletteErr("ERR_MISSING_NAME")
    ELSE
      LET is_support == IF as_bool(spell.extra.hojo).some
                        THEN as_bool(spell.extra.hojo).val ELSE FALSE
      IN IF is_support THEN generate_support_palette(spell)
         ELSE generate_regular_palette(spell)

-----------------------------------------------------------------------------
(* generate_spell_palette on spells of every shape *)

\* the largest number in a spell
MaxAmount == 12

T_plain == <<"A", "x">>
\* a text that ends as the dice roll begins
T_2d == <<"A", "2", "d">>
\* a text that holds a dice roll of its own
T_roll == <<"+", "2", "d", "+", "4">>

SpellNames == {<<>>, T_2d, T_roll}
SpellSchools == {<<>>, <<"<shin>", "<go>">>, <<"M", "a", "g", "e">>}

MPObject(value, value_plus, special) ==
    JObj([value |-> value, value_plus |-> value_plus, special |-> special])

SpellMPs ==
    << JNone, JInt(MaxAmount),
      MPObject(JInt(MaxAmount), JNone, JNone),
      MPObject(JStr(T_plain), JInt(0), JNone),
      MPObject(JNone, JNone, JStr(T_roll)),
      MPObject(JStr(T_plain), JNone, JNone),
      MPObject(JInt(1), JInt(2), JStr(T_plain)),
      MPObject(JNone, JInt(2), JStr(T_plain)) >>

AreaObject(value, hankei_m, matsubi) ==
    JObj([value |-> value, hankei_m |-> hankei_m, matsubi |-> matsubi])

TargetObject(kind, kobetsu, eria) ==
    JObj([kind |-> kind, kobetsu |-> kobetsu, eria |-> eria])

SpellTargets ==
    << JNone, JStr(T_plain),
      TargetObject(JStr(Kind_kobetsu), JStr(T_plain), JNone),
      TargetObject(JStr(Kind_kobetsu), JNone, JNone),
      TargetObject(JStr(Kind_eria), JNone,
                   AreaObject(JStr(T_2d), JInt(MaxAmount), JStr(T_plain))),
      TargetObject(JStr(Kind_eria), JNone,
                   AreaObject(JStr(T_plain), JStr(T_plain), JNone)),
      TargetObject(JStr(T_plain), JStr(T_plain), JNone) >>

TimeObject(value, unit) == JObj([value |-> value, unit |-> unit])

SpellTimes ==
    << JNone, JStr(T_plain),
      TimeObject(JStr(T_plain), JNone),
      TimeObject(JInt(MaxAmount), JStr(T_plain)),
      TimeObject(JInt(-1), JInt(0)),
      TimeObject(JBool(TRUE), JStr(T_plain)) >>

\* the keys <shatei> and <shatei>(m)
SpellRanges ==
    << <<JNone, JNone>>, <<JStr(T_2d), JNone>>, <<JInt(MaxAmount), JStr(T_plain)>>,
      <<JBool(TRUE), JStr(T_plain)>>, <<JNone, JInt(0)>>, <<JBool(TRUE), JNone>> >>

SpellEffects == <<JNone, JStr(T_plain), JStr(T_roll), JInt(MaxAmount)>>

SpellSupports == <<JNone, JBool(TRUE), JBool(FALSE), JStr(T_plain)>>

\* the spell made of one choice for each field
SpellOf(n, s, mp, tg, rg, tm, ef, su) ==
    [name |-> n, school |-> s,
     extra |-> [MP |-> SpellMPs[mp], taishou |-> SpellTargets[tg],
                shatei |-> SpellRanges[rg][1], shatei_m |-> SpellRanges[rg][2],
                jikan |-> SpellTimes[tm], kouka |-> SpellEffects[ef],
                hojo |-> SpellSupports[su]]]

InitPalette ==
    /\ pc = "call"
    /\ \E n \in SpellNames, s \in SpellSchools, mp \in DOMAIN SpellMPs,
          tg \in DOMAIN SpellTargets, rg \in DOMAIN SpellRanges,
          tm \in DOMAIN SpellTimes, ef \in DOMAIN SpellEffects,
          su \in DOMAIN SpellSupports :
         data = SpellOf(n, s, mp, tg, rg, tm, ef, su)
    /\ values = <<>> /\ result = Unset /\ start_row = Unset
    /\ Idle

CallGenerateSpellPalette ==
    /\ pc = "call"
    /\ result' = generate_spell_palette(data)
    /\ pc' = "returned"
    /\ UNCHANGED <<idleVars, data, values, start_row>>

NextPalette == CallGenerateSpellPalette

SpecPalette == InitPalette /\ [][NextPalette]_vars

\* sub occurs in text
Contains(text, sub) ==
    \E i \in 1..(Len(text) - Len(sub) + 1) : SubSeq(text, i, i + Len(sub) - 1) = sub

DiceRoll == <<"2", "d", "+">>

\* the spell is rendered as a support spell
IsSupport(spell) == spell.extra.hojo.t = "bool" /\ spell.extra.hojo.v

\* key is absent, or is not of the type the renderer reads
AbsentOrMalformed(spell) ==
    \/ spell.extra.MP.t # "obj"
    \/ /\ spell.extra.MP.v.value.t # "int"
       /\ spell.extra.MP.v.value_plus.t # "int"
       /\ spell.extra.MP.v.special.t # "str"
    \/ spell.extra.taishou.t # "obj"
    \/ spell.extra.taishou.v.kind.t # "str"
    \/ /\ spell.extra.taishou.v.kind.v = Kind_kobetsu
       /\ spell.extra.taishou.v.kobetsu.t # "str"
    \/ /\ spell.extra.taishou.v.kind.v = Kind_eria
       /\ \/ spell.extra.taishou.v.eria.t # "obj"
          \/ spell.extra.taishou.v.eria.v.value.t # "str"
          \/ spell.extra.taishou.v.eria.v.hankei_m.t \notin {"str", "int"}
          \/ spell.extra.taishou.v.eria.v.matsubi.t \notin {"str", "int"}
    \/ spell.extra.taishou.v.kind.v \notin {Kind_kobetsu, Kind_eria}
    \/ /\ spell.extra.shatei.t \notin {"str", "int"}
       /\ spell.extra.shatei_m.t \notin {"str", "int"}
    \/ spell.extra.jikan.t # "obj"
    \/ spell.extra.jikan.v.value.t \notin {"str", "int"}
    \/ spell.extra.kouka.t # "str"

\* the texts of the spell that a rendering shows
OwnTexts(spell) ==
    {spell.name, format_mp(spell).value, format_target(spell).value,
     format_range(spell).value, format_duration(spell).value,
     spell.extra.kouka.v}

RegularShape ==
    /\ StartsWith(result.value, DiceRoll)
    /\ Contains(result.value, Placeholder)

FailsOnBadField == AbsentOrMalformed(data) => IsErr(result)

\* C17 as stated: a rendered support spell never contains "2d+"; a rendered
\* regular spell starts with "2d+" and contains the placeholder of the
\* execution modifier; rendering fails when MP, target, range, duration or
\* effect is absent or malformed.
C17_AsStated ==
    pc = "returned" =>
      /\ (IsOk(result) /\ IsSupport(data)) => ~Contains(result.value, DiceRoll)
      /\ (IsOk(result) /\ ~IsSupport(data)) => RegularShape
      /\ FailsOnBadField

\* C17: a rendered support spell is the line of its own texts, so it contains
\* "2d+" only where one of these texts does; a rendered regular spell starts
\* with "2d+" and contains the placeholder; rendering fails when MP, target,
\* range, duration or effect is absent or malformed.
C17_PaletteShape ==
    pc = "returned" =>
      /\ (IsOk(result) /\ IsSupport(data)) =>
           /\ result.value = palette_line(data.name, format_mp(data).value,
                  format_target(data).value, format_range(data).value,
                  format_duration(data).value, data.extra.kouka.v)
           /\ Contains(result.value, DiceRoll) =>
                \E text \in OwnTexts(data) : Contains(text, DiceRoll)
      /\ (IsOk(result) /\ ~IsSupport(data)) => RegularShape
      /\ FailsOnBadField

\* a support spell without a dice roll in its texts, one of them ending in
\* "2d", is rendered
C17_Witness ==
    /\ pc = "returned" /\ IsOk(result) /\ IsSupport(data)
    /\ data.name = T_2d
    /\ \A text \in OwnTexts(data) : ~Contains(text, DiceRoll)

-----------------------------------------------------------------------------
(* The JSON exporter and a reader of its file *)

\* Option<T> of a key: null is None
deserialize_option(j) == IF j.json = "null" THEN NoneV ELSE Some(j.v)

\* Deserialize of Part
deserialize_part(o) ==
    MkPart(o.name, deserialize_option(o.core), deserialize_option(o.HP), o.MP,
           deserialize_option(o.hit_rate), deserialize_option(o.dodge),
           deserialize_option(o.damage), o.armor, o.special)

\* Deserialize of Monster: Revision is an f32, which null is not
deserialize_monster(o) ==
    IF o.Revision.json = "null"
    THEN Err("serde_json::Error", "invalid type: null, expected f32")
    ELSE Ok([name |-> o.name, category |-> o.Category, level |-> o.Lv,
             part |-> [i \in DOMAIN o.part |-> deserialize_part(o.part[i])],
             initiative |-> o.initiative, common_abilities |-> o.common_abilities,
             weakness |-> o.weakness, moveon |-> o.moveon,
             moveon_description |-> o.moveon_des, movein |-> o.movein,
             movein_description |-> o.movein_des, data |-> o.data,
             weakness_value |-> o.weakness_value,
             life_resistance |-> o.life_resistance,
             mental_resistance |-> o.mental_resistance, fame |-> o.fame,
             revision |-> o.Revision.v])

\* serde_json::from_str::<Vec<Monster>>: "[]", or objects between "[" and "]"
\* of which every one is a Monster; the first that is not is the error
from_str_monsters(content) ==
    IF Len(content) = 1 /\ content[1].t = "[]" THEN Ok(<<>>)
    ELSE IF \/ Len(content) < 3
            \/ content[1].t # "[" \/ content[Len(content)].t # "]"
            \/ \E i \in 2..(Len(content) - 1) : content[i].t # "object"
    THEN Err("serde_json::Error", "expected a sequence")
    ELSE LET n == Len(content) - 2
             loaded == [i \in 1..n |-> deserialize_monster(content[i + 1].v)]
         IN IF \E i \in 1..n : IsErr(loaded[i])
            THEN loaded[CHOOSE i \in 1..n :
                            IsErr(loaded[i]) /\ \A k \in 1..(i - 1) : IsOk(loaded[k])]
            ELSE Ok([i \in 1..n |-> loaded[i].value])

\* a record whose Revision was read from a number beyond f32
Titan == [Goblin EXCEPT !.name = "Titan", !.level = 30, !.revision = "inf"]

JsonRecordLists == SeqsUpTo(Monsters \cup {Titan}, MaxRecords)

InitJson ==
    /\ pc = "export"
    /\ formatArg = Chars_json /\ exporter = "JSON Exporter"
    /\ data \in JsonRecordLists
    /\ destination \in Destinations
    /\ dirs \in { {}, {<<"outdir">>} }
    /\ result = Unset /\ now = StartTime
    /\ homeSet = TRUE /\ credFile = [state |-> "absent"]
    /\ oauth = NoFlow /\ client = NoneV
    /\ idx = 0 /\ start_row = Unset /\ values = Unset
    /\ sheet = {} /\ inFlight = {} /\ log = <<>> /\ io = {} /\ files = {}
    /\ all_xml_files = <<>>

\* fs::read_to_string of the file the exporter wrote, then from_str
JsonReload ==
    /\ pc = "exit" /\ IsOk(result)
    /\ values' = from_str_monsters(FileAt(files, destination)[2])
    /\ pc' = "reloaded"
    /\ UNCHANGED <<inputVars, authVars, remoteVars, fsVars, exporter, result, now,
                   idx, start_row, io, all_xml_files>>

NextJson == JsonExport \/ JsonReload

SpecJson == InitJson /\ [][NextJson]_vars

\* every number of the records is a number of JSON
ValidRecords(records) == \A i \in DOMAIN records : records[i].revision \notin NonFinite

JsonRoundTripWhole ==
    (pc = "reloaded" /\ ValidRecords(data)) => values = Ok(data)

\* a record that is not valid: its file does not parse
JsonNullRevision ==
    (pc = "reloaded" /\ ~ValidRecords(data)) => IsErr(values)

-----------------------------------------------------------------------------
(* Properties of the chat palette of an archive entry *)

\* the value of a fixed-value line on the stats the document stores
FixedValue(line, slots) == slots[line.refs[1]] + line.plus

\* the lines of a kind, in palette order
LinesOf(palette, kind) == SelectSeq(palette, LAMBDA line : line.kind = kind)

\* the nominal values of part i of record m, under the names of the stats
Nominal(m, i) ==
    [hit_rate |-> unwrap_or(data[m].part[i].hit_rate, 0),
     dodge |-> unwrap_or(data[m].part[i].dodge, 0),
     life_resistance |-> data[m].life_resistance,
     mental_resistance |-> data[m].mental_resistance]

\* the archive entry of part i of record m, once record m is generated
EntryOf(m, i) == all_xml_files[PartsBefore(m) + i][2]

Generated(m) == IsUdonarium /\ pc \in {"udon_loop", "exit"} /\ idx > 0 /\ m < idx

FormulaKinds(palette) ==
    LET formulas == SelectSeq(palette, LAMBDA line : line.kind \notin {"header", "blank"})
    IN [k \in DOMAIN formulas |-> formulas[k].kind]

SectionOrder ==
    <<"helper", "helper", "helper", "helper", "helper",
      "fixed", "fixed", "fixed", "fixed",
      "dice", "dice", "dice", "dice", "dice">>

\* the texts of record m that a document shows
TextsOf(m) ==
    {data[m].common_abilities} \cup
    {data[m].part[i].special_abilities : i \in DOMAIN data[m].part}

\* C22: the chat palette of every entry of the archive is one and the same,
\* for core and non-core parts of every record: five helper formulas, then
\* four fixed-value formulas, then five dice formulas, and no line of it is
\* or reads the common-abilities or special-abilities text.
C22_OnePalette ==
    \A m \in DOMAIN data : \A i \in DOMAIN data[m].part :
      Generated(m) =>
        LET palette == EntryOf(m, i).palette IN
        /\ FormulaKinds(palette) = SectionOrder
        /\ palette = all_xml_files[1][2].palette
        /\ palette = chat_palette_core
        /\ \A k \in DOMAIN palette :
             /\ palette[k].label \notin (TextsOf(m) \ {""})
             /\ \A r \in DOMAIN palette[k].refs :
                  palette[k].refs[r] \notin {"ability1", "ability2"}

\* a core part and a non-core part, both with abilities texts, are in the
\* archive
C22_Witness ==
    \E m \in DOMAIN data : \E i, j \in DOMAIN data[m].part :
      /\ Generated(m)
      /\ EntryOf(m, i).template = "core" /\ EntryOf(m, j).template = "non_core"
      /\ EntryOf(m, i).slots.ability2 # "" /\ EntryOf(m, j).slots.ability2 # ""
      /\ EntryOf(m, i).slots.ability1 # ""

-----------------------------------------------------------------------------
(* generate_xml on every part index *)

\* the largest part index generate_xml is called with
MaxPartIndex == 4

\* the transformed record the exporter hands to generate_xml (mod.rs, lines
\* 40-50)
TransformedOf(monster) ==
    LET part_names == generate_names(monster.part, monster.name) IN
    transform(monster, [i \in DOMAIN part_names |-> part_names[i].display_name])

InitGenerateXml ==
    /\ pc = "call"
    /\ \E base \in {Goblin, Treant}, parts \in SheetPartLists :
          data = <<[base EXCEPT !.part = parts]>>
    /\ values \in 0..MaxPartIndex
    /\ result = Unset /\ start_row = Unset
    /\ Idle

\* DataTransformer::transform(monster, display_names)
CallTransform ==
    /\ pc = "call"
    /\ result' = Ok(TransformedOf(Monster(1)))
    /\ pc' = "transformed"
    /\ UNCHANGED <<idleVars, data, values, start_row>>

\* XmlGenerator::generate_xml(transformed, part_index)
CallGenerateXml ==
    /\ pc = "transformed"
    /\ result' = generate_xml(result.value, values)
    /\ pc' = "returned"
    /\ UNCHANGED <<idleVars, data, values, start_row>>

NextGenerateXml == CallTransform \/ CallGenerateXml

SpecGenerateXml == InitGenerateXml /\ [][NextGenerateXml]_vars

\* the notes only the core template has
CoreNotes == {"prep", "weakness", "species"}

\* C23: generate_xml fails, with the out-of-bounds error, exactly when the
\* part index is at least the number of parts; otherwise the document is of
\* the core template exactly when the core flag of the part is true, and the
\* combat-prep note (fame/weakness value, initiative), the weakness note and
\* the species note (category, level) are in the documents of core parts only.
C23_TemplateOfPart ==
    pc = "returned" =>
      LET monster == Monster(1) IN
      /\ IsErr(result) <=> values >= Len(monster.part)
      /\ IsErr(result) => result.msg = "Part index out of bounds"
      /\ IsOk(result) =>
           LET part == monster.part[values + 1]
               xml == result.value IN
           /\ xml.template = "core" <=> part.core = Some(TRUE)
           /\ xml.template \in {"core", "non_core"}
           /\ xml.template = "core" =>
                /\ xml.prep = <<monster.fame, monster.weakness_value,
                                monster.initiative>>
                /\ xml.weakness = transform_weakness(monster.weakness)
                /\ xml.species = <<monster.category, monster.level>>
           /\ xml.template = "non_core" => DOMAIN xml \cap CoreNotes = {}

\* the document of the third part, whose core flag is absent, after a core part
C23_Witness ==
    /\ pc = "returned" /\ IsOk(result) /\ values = 2
    /\ Monster(1).part[1].core = Some(TRUE)
    /\ Monster(1).part[3].core = NoneV
    /\ result.value.template = "non_core"

\* an index one beyond the last part is refused
IndexAtLengthRefused ==
    ~(pc = "returned" /\ values = Len(Monster(1).part) /\ IsOk(result))

-----------------------------------------------------------------------------
(* Properties of the spell palette: the entry point and the MP cost *)

\* C25: rendering a spell without a name fails with the name-required error,
\* whatever else the spell lacks.  With a name, a support flag that is the
\* boolean true selects the support rendering, which does not read the
\* school; a flag that is absent, false or not a boolean selects the regular
\* rendering, which fails with the school error when the school is empty.
C25_EntryPoint ==
    pc = "returned" =>
      /\ data.name = <<>> => result = PaletteErr("ERR_MISSING_NAME")
      /\ (data.name # <<>> /\ IsSupport(data)) =>
           /\ ~AbsentOrMalformed(data) =>
                IsOk(result) /\ ~StartsWith(result.value, DiceRoll)
           /\ IsErr(result) =>
                result.msg \notin {"ERR_MISSING_SCHOOL", "ERR_MISSING_NAME"}
      /\ (data.name # <<>> /\ ~IsSupport(data)) =>
           /\ data.school = <<>> => result = PaletteErr("ERR_MISSING_SCHOOL")
           /\ (data.school # <<>> /\ ~AbsentOrMalformed(data)) =>
                IsOk(result) /\ StartsWith(result.value, DiceRoll)

\* a support spell without a school is rendered
C25_Witness ==
    /\ pc = "returned" /\ IsOk(result)
    /\ IsSupport(data) /\ data.school = <<>>

\* the MP cost the priority value, value+, special gives: no cost where MP is
\* absent, is not an object, or has none of the three in its type
ExpectedMP(mp) ==
    IF mp.t # "obj" THEN NoneV
    ELSE IF mp.v.value.t = "int" THEN Some(i64_to_string(mp.v.value.v))
    ELSE IF mp.v.value_plus.t = "int"
         THEN Some(i64_to_string(mp.v.value_plus.v) \o <<"<nami>">>)
    ELSE IF mp.v.special.t = "str" THEN Some(mp.v.special.v)
    ELSE NoneV

\* the MP cost as a rendering shows it, between its separators
ShownMP(cost) == <<" ", "/", " ", "M", "P", ":">> \o cost \o <<" ", "/", " ">>

\* C26: of a spell that gets as far as its MP, the cost is the integer
\* "value" as a number; else the integer "value+" followed by the wave dash;
\* else the string "special" as it is; and where none of these applies, or
\* MP is absent or not an object, rendering fails with the MP error.  Of
\* several keys the first in this order decides.
C26_MPPriority ==
    (pc = "returned" /\ data.name # <<>> /\ (IsSupport(data) \/ data.school # <<>>)) =>
      LET expected == ExpectedMP(data.extra.MP) IN
      /\ ~expected.some => result = PaletteErr("ERR_MISSING_MP")
      /\ expected.some =>
           /\ IsOk(result) => Contains(result.value, ShownMP(expected.val))
           /\ IsErr(result) => result.msg # "ERR_MISSING_MP"

\* a spell with all three keys is rendered with its "value"
C26_Witness ==
    /\ pc = "returned" /\ IsOk(result)
    /\ data.extra.MP.t = "obj"
    /\ data.extra.MP.v.value.t = "int" /\ data.extra.MP.v.value_plus.t = "int"
    /\ data.extra.MP.v.special.t = "str"
    /\ Contains(result.value, ShownMP(<<"1">>))

-----------------------------------------------------------------------------
(* Properties of the OAuth flow inside the export *)

\* the step is the save of authenticate(): the file gets the credentials of
\* the exchange
SaveStep ==
    /\ pc = "auth_save" /\ pc' = "client_new"
    /\ IsOk(oauth.callback) /\ oauth.credentials.some
    /\ "http_token" \in io /\ "cred_write" \notin io
    /\ credFile' = [state |-> "valid",
                    expires_at |-> oauth.credentials.val.expires_at]

\* the step is the removal of a stored file that did not load
RemoveStep == pc = "load_credentials" /\ credFile' = [state |-> "absent"]

\* C27: the credentials file is written only by the save that ends
\* authenticate(), after the callback gave the authorization code and the
\* token exchange succeeded, with the expiry the exchange computed, its time
\* plus the lifetime returned; a failure of the client config, the browser,
\* the callback or the exchange leaves the file as it was; and the file is
\* written at most once in an export.
C27_CredentialsWrite ==
    [][ /\ credFile' # credFile => (SaveStep \/ RemoveStep)
        /\ (pc = "auth_exchange" /\ pc' = "auth_save") =>
             \E expires_in \in Lifetimes :
               oauth'.credentials = Some([expires_at |-> now + expires_in])
        /\ (pc \in {"auth_config", "auth_browser", "auth_callback", "auth_exchange"}
              /\ pc' = "exit") => (IsErr(result') /\ credFile' = credFile)
        /\ ("cred_write" \in io' /\ "cred_write" \notin io) => pc = "auth_save"
        /\ "cred_write" \in io => pc # "auth_save" ]_vars

\* the file is written, a second after the exchange, with the expiry of the
\* exchange
C27_Witness ==
    /\ pc = "client_new" /\ "cred_write" \in io
    /\ now = StartTime + 1
    /\ credFile = [state |-> "valid", expires_at |-> StartTime + ExpirySkew]

-----------------------------------------------------------------------------
(* Properties of the rows a Spreadsheet export writes *)

\* the writes of the export that the server has answered
WritesAnswered ==
    {k \in DOMAIN log : log[k].op = "post" /\ log[k].ev = "answered"}

\* C28: the rows written for different records of one export are disjoint,
\* each record starting beyond the last row written for the records before
\* it (the server's answer to a read holds every row written before).
C28_DisjointRows ==
    \A j, k \in WritesAnswered :
      j < k =>
        /\ log[j].rows \cap log[k].rows = {}
        /\ \A early \in log[j].rows, late \in log[k].rows : early < late

\* the same of the exports that stay inside the rows A3:A1000 the read covers
DisjointRowsInRange ==
    \A j, k \in WritesAnswered :
      (j < k /\ \A r \in log[j].rows \cup log[k].rows : r <= ColumnALast) =>
        \A early \in log[j].rows, late \in log[k].rows : early < late

-----------------------------------------------------------------------------
(* Properties of the archive entry names *)

\* C29: the entry names of a VirtualTabletop export are pairwise distinct
\* across all parts of all exported creatures.
C29_DistinctEntryNames ==
    \A j, k \in DOMAIN all_xml_files :
      j # k => all_xml_files[j][1] # all_xml_files[k][1]

\* the same of the parts of one creature, as generate_names returns them
DistinctNamesOfOneCreature ==
    pc = "returned" =>
      \A j, k \in DOMAIN result.value :
        j # k => result.value[j].filename # result.value[k].filename

-----------------------------------------------------------------------------
(* Properties of the credentials an export has just obtained *)

\* the OAuth flow of this export completed: the credentials it produced are
\* in the credentials file
FlowCompleted ==
    /\ "cred_write" \in io
    /\ oauth.credentials.some
    /\ credFile = [state |-> "valid",
                   expires_at |-> oauth.credentials.val.expires_at]

\* GoogleSheetsClient::new failed
ClientRefused ==
    /\ pc = "exit" /\ IsErr(result)
    /\ result.msg = "Failed to create Sheets client"

\* C30: an export that found no stored credentials and whose OAuth flow
\* completed never fails to construct the Sheets client on the credentials
\* it has just obtained and persisted, whatever lifetime the provider returned.
C30_FreshCredentialsAccepted == FlowCompleted => ~ClientRefused

\* the same of the lifetimes that outlast the skew and the time the export
\* takes to reach the client
FreshCredentialsOfLongLife ==
    (FlowCompleted /\ oauth.credentials.val.expires_at
                        > StartTime + MaxTicks + ExpirySkew)
      => ~ClientRefused

====
